---- MODULE Spec2Model ----
(***************************************************************************)
(* Model of the streaming relay of backend/audio-server/server.js: the     *)
(* stdout line parser, the process bridge (readiness flag, pending command *)
(* queue, plain-text queue) and the broadcast hub (SSE and WebSocket       *)
(* registries).                                                            *)
(*                                                                         *)
(* Text is a sequence of one-character strings.  The worker's stdout is a  *)
(* sequence of bytes: an ASCII byte is written as its character, the two   *)
(* bytes of the UTF-8 encoding of U+00E9 are written "xC3" and "xA9".      *)
(* Binary frames are sequences of integers 0..255.  JavaScript string      *)
(* positions are 0-based and are kept 0-based in the operators below.      *)
(***************************************************************************)
EXTENDS Integers, Sequences, FiniteSets, TLC

(***************************************************************************)
(* Bounds of the model.                                                    *)
(***************************************************************************)
\* lines the worker prints in one behaviour
MaxEmit == 2
\* HTTP commands and WebSocket messages the clients send in one behaviour
MaxCmds == 2
\* push (SSE) connections that may ever be opened
MaxSse == 2
\* stream (WebSocket) connections that may ever be opened
MaxWs == 1
\* largest value of the millisecond clock read by Date.now()
MaxClock == 2
\* calls of player methods in one behaviour
MaxCalls == 5
\* steps of the player's clock in one behaviour
MaxTicks == 2

VARIABLES
    pipe,             \* bytes the worker has printed and the server has not read yet
    emitted,          \* number of lines the worker has printed
    alive,            \* the server process is running (no uncaught exception yet)
    outputBuffer,     \* carry-over text after the last newline
    pythonReady,      \* readiness flag
    pendingMessages,  \* commands queued before readiness
    messageQueue,     \* plain-text lines waiting for /text-output
    stdinWrites,      \* every write made to the worker's stdin, in order
    sseClients,       \* registry of push clients: sequence of [id, res]
    sseConn,          \* push connections: [state, got]
    wsClients,        \* registry of stream clients, in insertion order
    wsConn,           \* stream connections: [readyState, got]
    now,              \* Date.now()
    cmds,             \* number of client requests made
    lastOp,           \* the last client request and its response
    queuedLog,        \* requests acknowledged "Message queued", in order
    rxBytes,          \* every byte read from the worker so far
    rxText,           \* concatenation of the decoded fragments
    processed,        \* trimmed lines classified so far, in order
    batch,            \* effects of the lines classified by the last data event
    hubLog,           \* everything submitted to the hub so far: [ws, sse]
    pulled,           \* the body of every /text-output response, in order
    player,           \* the fields of the client's StreamingAudioPlayer
    env               \* the player's surroundings: audio clock, contexts,
                      \* source nodes, timers, completion callbacks

\* the variables of the client-side player
playerVars == << player, env >>

\* the variables of the server
serverVars == << pipe, emitted, alive, outputBuffer, pythonReady,
                 pendingMessages, messageQueue, stdinWrites, sseClients,
                 sseConn, wsClients, wsConn, now, cmds, lastOp, queuedLog,
                 rxBytes, rxText, processed, batch, hubLog, pulled >>

vars == << pipe, emitted, alive, outputBuffer, pythonReady, pendingMessages,
           messageQueue, stdinWrites, sseClients, sseConn, wsClients, wsConn,
           now, cmds, lastOp, queuedLog, rxBytes, rxText, processed, batch,
           hubLog, pulled, player, env >>

(***************************************************************************)
(* JavaScript string and number primitives used by the handlers.           *)
(***************************************************************************)
NL == "\n"

Whitespace == {" ", "\t", "\r", "\n"}

Digits == <<"0", "1", "2", "3", "4", "5", "6", "7", "8", "9">>

Min(a, b) == IF a < b THEN a ELSE b

Max(a, b) == IF a > b THEN a ELSE b

\* String.prototype.substring(a, b): arguments clamped to 0..length, swapped
\* when a > b.
Substring(s, a, b) ==
    LET ca == Max(0, Min(a, Len(s)))
        cb == Max(0, Min(b, Len(s)))
        lo == Min(ca, cb)
        hi == Max(ca, cb)
    IN  SubSeq(s, lo + 1, hi)

SubstringFrom(s, a) == Substring(s, a, Len(s))

\* String.prototype.indexOf(c, from) for a one-character needle: the 0-based
\* position of the first c at or after from, or -1.
IndexOf(s, c, from) ==
    LET start == Max(0, from)
        hits == {i \in start..(Len(s) - 1) : s[i + 1] = c}
    IN  IF hits = {} THEN -1
        ELSE CHOOSE i \in hits : \A j \in hits : i <= j

StartsWith(s, p) == Len(s) >= Len(p) /\ SubSeq(s, 1, Len(p)) = p

\* String.prototype.split(c) for a one-character separator: always at least
\* one piece; the last piece is the text after the last separator.
RECURSIVE Split(_, _)
Split(s, c) ==
    LET k == IndexOf(s, c, 0)
    IN  IF k = -1 THEN <<s>>
        ELSE <<Substring(s, 0, k)>> \o Split(SubstringFrom(s, k + 1), c)

RECURSIVE TrimLeft(_)
TrimLeft(s) ==
    IF s # <<>> /\ Head(s) \in Whitespace THEN TrimLeft(Tail(s)) ELSE s

RECURSIVE TrimRight(_)
TrimRight(s) ==
    IF s # <<>> /\ s[Len(s)] \in Whitespace
    THEN TrimRight(SubSeq(s, 1, Len(s) - 1)) ELSE s

\* String.prototype.trim()
Trim(s) == TrimRight(TrimLeft(s))

\* Buffer.prototype.toString() (UTF-8): a complete two-byte sequence decodes
\* to its character; a lead byte with no continuation byte after it in this
\* buffer, and a continuation byte with no lead byte before it, each decode
\* to the replacement character U+FFFD.
Utf8Decode(bytes) ==
    LET at(i) ==
            IF bytes[i] = "xC3"
            THEN IF i < Len(bytes) /\ bytes[i + 1] = "xA9"
                 THEN "U+00E9" ELSE "U+FFFD"
            ELSE IF bytes[i] = "xA9"
            THEN IF i > 1 /\ bytes[i - 1] = "xC3" THEN "" ELSE "U+FFFD"
            ELSE bytes[i]
        keep(c) == c # ""
    IN  SelectSeq([i \in 1..Len(bytes) |-> at(i)], keep)

(***************************************************************************)
(* JavaScript numbers, as far as the handlers use them: NaN or an integer  *)
(* held as a sign and a sequence of decimal digits without leading zeros   *)
(* (so that values beyond 32 bits are exact).                              *)
(***************************************************************************)
NaN == [nan |-> TRUE, neg |-> FALSE, mag |-> <<0>>]

DigitValue(c) == (CHOOSE i \in 1..10 : Digits[i] = c) - 1

IsDigit(c) == \E i \in 1..10 : Digits[i] = c

RECURSIVE DigitRun(_)
DigitRun(s) ==
    IF s # <<>> /\ IsDigit(Head(s))
    THEN <<DigitValue(Head(s))>> \o DigitRun(Tail(s)) ELSE <<>>

RECURSIVE StripZeros(_)
StripZeros(d) ==
    IF Len(d) > 1 /\ Head(d) = 0 THEN StripZeros(Tail(d)) ELSE d

\* parseInt(s): leading whitespace skipped, an optional sign, then the
\* longest run of decimal digits; NaN when there is no digit.
ParseInt(s) ==
    LET t == TrimLeft(s)
        signed == t # <<>> /\ Head(t) \in {"-", "+"}
        body == IF signed THEN Tail(t) ELSE t
        run == DigitRun(body)
    IN  IF run = <<>> THEN NaN
        ELSE [nan |-> FALSE, neg |-> (signed /\ Head(t) = "-"),
              mag |-> StripZeros(run)]

IsZero(n) == n.mag = <<0>>

RECURSIVE DigitsToNat(_)
DigitsToNat(d) ==
    IF d = <<>> THEN 0 ELSE DigitsToNat(SubSeq(d, 1, Len(d) - 1)) * 10 + d[Len(d)]

\* the value of a number known to be small
NumToInt(n) == IF n.neg THEN 0 - DigitsToNat(n.mag) ELSE DigitsToNat(n.mag)

\* lexicographic comparison of digit sequences of equal length
RECURSIVE DigitsGreater(_, _)
DigitsGreater(a, b) ==
    IF a = <<>> THEN FALSE
    ELSE IF Head(a) # Head(b) THEN Head(a) > Head(b)
    ELSE DigitsGreater(Tail(a), Tail(b))

MagGreater(a, b) ==
    Len(a) > Len(b) \/ (Len(a) = Len(b) /\ DigitsGreater(a, b))

\* long division of a digit sequence by a small divisor
RECURSIVE LongDiv(_, _, _)
LongDiv(d, by, rem) ==
    IF d = <<>> THEN [q |-> <<>>, r |-> rem]
    ELSE LET cur == rem * 10 + Head(d)
             rest == LongDiv(Tail(d), by, cur % by)
         IN  [q |-> <<cur \div by>> \o rest.q, r |-> rest.r]

DivMod256(d) ==
    LET x == LongDiv(d, 256, 0) IN [q |-> StripZeros(x.q), r |-> x.r]

(***************************************************************************)
(* Buffer primitives.                                                      *)
(***************************************************************************)
MaxU32 == <<4, 2, 9, 4, 9, 6, 7, 2, 9, 5>>

\* Mutant: the index is stored most significant byte first.
WriteUInt32LE_BigEndian(n) ==
    IF n.nan THEN [threw |-> FALSE, bytes |-> <<0, 0, 0, 0>>]
    ELSE IF (n.neg /\ ~IsZero(n)) \/ MagGreater(n.mag, MaxU32)
    THEN [threw |-> TRUE, bytes |-> <<>>]
    ELSE LET a == DivMod256(n.mag)
             b == DivMod256(a.q)
             c == DivMod256(b.q)
             d == DivMod256(c.q)
         IN  [threw |-> FALSE, bytes |-> <<d.r, c.r, b.r, a.r>>]

\* Buffer.prototype.writeUInt32LE(value, 0) on a zeroed 4-byte buffer: throws
\* a RangeError when value > 4294967295 or value < 0; NaN passes the range
\* check and is stored as 0.
WriteUInt32LE(n) ==
    IF n.nan THEN [threw |-> FALSE, bytes |-> <<0, 0, 0, 0>>]
    ELSE IF (n.neg /\ ~IsZero(n)) \/ MagGreater(n.mag, MaxU32)
    THEN [threw |-> TRUE, bytes |-> <<>>]
    ELSE LET a == DivMod256(n.mag)
             b == DivMod256(a.q)
             c == DivMod256(b.q)
             d == DivMod256(c.q)
         IN  [threw |-> FALSE, bytes |-> <<a.r, b.r, c.r, d.r>>]

Base64Alphabet ==
    << "A", "B", "C", "D", "E", "F", "G", "H", "I", "J", "K", "L", "M",
       "N", "O", "P", "Q", "R", "S", "T", "U", "V", "W", "X", "Y", "Z",
       "a", "b", "c", "d", "e", "f", "g", "h", "i", "j", "k", "l", "m",
       "n", "o", "p", "q", "r", "s", "t", "u", "v", "w", "x", "y", "z",
       "0", "1", "2", "3", "4", "5", "6", "7", "8", "9", "+", "/" >>

IsBase64(c) == \E i \in 1..64 : Base64Alphabet[i] = c

Base64Value(c) == (CHOOSE i \in 1..64 : Base64Alphabet[i] = c) - 1

\* the 6-bit values of the text up to the first padding character; characters
\* outside the alphabet are skipped
RECURSIVE Sextets(_)
Sextets(s) ==
    IF s = <<>> \/ Head(s) = "=" THEN <<>>
    ELSE IF IsBase64(Head(s)) THEN <<Base64Value(Head(s))>> \o Sextets(Tail(s))
    ELSE Sextets(Tail(s))

RECURSIVE SextetsToBytes(_)
SextetsToBytes(v) ==
    IF Len(v) < 2 THEN <<>>
    ELSE LET b1 == v[1] * 4 + (v[2] \div 16)
         IN  IF Len(v) = 2 THEN <<b1>>
             ELSE LET b2 == (v[2] % 16) * 16 + (v[3] \div 4)
                  IN  IF Len(v) = 3 THEN <<b1, b2>>
                      ELSE <<b1, b2, (v[3] % 4) * 64 + v[4]>>
                           \o SextetsToBytes(SubSeq(v, 5, Len(v)))

\* Buffer.from(text, 'base64')
Base64Decode(s) == SextetsToBytes(Sextets(s))

(***************************************************************************)
(* Protocol words.                                                         *)
(***************************************************************************)
READY == <<"R", "E", "A", "D", "Y">>

KOKORO_READY == <<"K", "O", "K", "O", "R", "O", "_">> \o READY

INTERRUPT == <<"I", "N", "T", "E", "R", "R", "U", "P", "T">>

INTERRUPT_ACK == INTERRUPT \o <<"_", "A", "C", "K">>

STREAM_ == <<"S", "T", "R", "E", "A", "M", "_">>

STREAM_START == STREAM_ \o <<"S", "T", "A", "R", "T", ":">>

STREAM_CHUNK == STREAM_ \o <<"C", "H", "U", "N", "K", ":">>

STREAM_END == STREAM_ \o <<"E", "N", "D", ":">>

AUDIO == <<"A", "u", "d", "i", "o", ":">>

TEXT == <<"T", "E", "X", "T", ":">>

TEXT_TTS == <<"T", "E", "X", "T", "_", "T", "T", "S", ":">>

TTS_SETTING == <<"T", "T", "S", "_", "S", "E", "T", "T", "I", "N", "G", ":">>

ON == <<"o", "n">>

OFF == <<"o", "f", "f">>

(***************************************************************************)
(* Broadcast hub.  A push connection is "new" (never opened), "open", or   *)
(* "closed" (its socket is gone; a write to it returns false and delivers  *)
(* nothing).  A stream connection carries the WebSocket readyState:        *)
(* 0 CONNECTING, 1 OPEN, 2 CLOSING, 3 CLOSED.  Each connection also notes   *)
(* in "since" how much had been handed to the hub when it registered.      *)
(***************************************************************************)
SseIds == 1..MaxSse

WsIds == 1..MaxWs

\* res.write(text) on one push connection
ResWrite(conns, c, ev) ==
    IF conns[c].state = "open"
    THEN [conns EXCEPT ![c].got = Append(@, ev)]
    ELSE conns

\* Mutant: a failed write ends the loop, as a throwing write would.
RECURSIVE BroadcastEvent_AbortsOnFailure(_, _, _)
BroadcastEvent_AbortsOnFailure(reg, conns, ev) ==
    IF reg = <<>> \/ conns[Head(reg).res].state # "open" THEN conns
    ELSE BroadcastEvent_AbortsOnFailure(Tail(reg),
                                        ResWrite(conns, Head(reg).res, ev), ev)

\* broadcastEvent(eventType, data): sseClients.forEach(client => res.write)
RECURSIVE BroadcastEvent(_, _, _)
BroadcastEvent(reg, conns, ev) ==
    IF reg = <<>> THEN conns
    ELSE BroadcastEvent(Tail(reg), ResWrite(conns, Head(reg).res, ev), ev)

\* Mutant: a frame overtakes the frames sent before it.
RECURSIVE WsSendAll_NewestFirst(_, _, _)
WsSendAll_NewestFirst(reg, conns, frame) ==
    IF reg = <<>> THEN conns
    ELSE LET ws == Head(reg)
             next == IF conns[ws].readyState = 1
                     THEN [conns EXCEPT ![ws].got = <<frame>> \o @]
                     ELSE conns
         IN  WsSendAll_NewestFirst(Tail(reg), next, frame)

\* Mutant: the frame is sent whatever the state of the connection.
RECURSIVE WsSendAll_AnyState(_, _, _)
WsSendAll_AnyState(reg, conns, frame) ==
    IF reg = <<>> THEN conns
    ELSE WsSendAll_AnyState(Tail(reg),
                            [conns EXCEPT ![Head(reg)].got = Append(@, frame)],
                            frame)

\* for (const ws of wsClients) if (ws.readyState === 1) ws.send(msg)
RECURSIVE WsSendAll(_, _, _)
WsSendAll(reg, conns, frame) ==
    IF reg = <<>> THEN conns
    ELSE LET ws == Head(reg)
             next == IF conns[ws].readyState = 1
                     THEN [conns EXCEPT ![ws].got = Append(@, frame)]
                     ELSE conns
         IN  WsSendAll(Tail(reg), next, frame)

\* wsBroadcastJSON(obj): the frame is the object that is stringified
WsBroadcastJSON(reg, conns, obj) == WsSendAll(reg, conns, obj)

\* wsBroadcastBinary(buffer)
WsBroadcastBinary(reg, conns, buffer) == WsSendAll(reg, conns, [bin |-> buffer])

(***************************************************************************)
(* The stdout data handler.  st is the state the handler reads and writes  *)
(* while it loops over the complete lines of one data event:               *)
(*   ready, pending, mq, stdin, sse, ws : the server variables             *)
(*   threw      : an exception left the handler                            *)
(*   processed  : trimmed lines classified so far                          *)
(*   hub        : frames and events handed to the broadcast functions       *)
(*   batch      : per line of this event, what the line caused             *)
(***************************************************************************)
NoEffect(trimmed) ==
    [line |-> trimmed, kind |-> "empty", ws |-> <<>>, sse |-> <<>>,
     mq |-> <<>>, writes |-> <<>>, threw |-> FALSE,
     sseReg |-> <<>>, sseOpen |-> {}, sseGot |-> {},
     wsReg |-> <<>>, wsOpen |-> {}, wsGot |-> {}]

Record(st, eff) ==
    [st EXCEPT !.batch = Append(@, eff),
               !.processed = Append(@, eff.line),
               !.hub = [ws |-> @.ws \o eff.ws, sse |-> @.sse \o eff.sse],
               !.threw = eff.threw]

\* Mutant: the flush forgets the speech flag of a queued command.
FlushLine_AlwaysText(msg) == TEXT \o msg.message \o <<NL>>

\* `${prefix}${msg.message}\n` of the READY branch
FlushLine(msg) ==
    (IF msg.enableTts = "true" THEN TEXT_TTS ELSE TEXT) \o msg.message \o <<NL>>

\* Mutant: the queue is flushed newest first.
RECURSIVE FlushWrites_NewestFirst(_)
FlushWrites_NewestFirst(pending) ==
    IF pending = <<>> THEN <<>>
    ELSE FlushWrites_NewestFirst(Tail(pending))
         \o <<[text |-> FlushLine(Head(pending)), origin |-> "flush"]>>

\* for (const msg of pendingMessages) pythonProcess.stdin.write(...)
RECURSIVE FlushWrites(_)
FlushWrites(pending) ==
    IF pending = <<>> THEN <<>>
    ELSE <<[text |-> FlushLine(Head(pending)), origin |-> "flush"]>>
         \o FlushWrites(Tail(pending))

\* Mutant: READY flips the flag instead of setting it.
OnReady_Toggles(st, trimmed) ==
    LET w == FlushWrites(st.pending)
    IN  Record([st EXCEPT !.ready = ~st.ready,
                          !.stdin = @ \o w,
                          !.pending = <<>>],
               [NoEffect(trimmed) EXCEPT !.kind = "ready", !.writes = w])

\* Mutant: the READY branch writes the pending commands and keeps them.
OnReady_KeepsQueue(st, trimmed) ==
    LET w == FlushWrites(st.pending)
    IN  Record([st EXCEPT !.ready = TRUE,
                          !.stdin = @ \o w],
               [NoEffect(trimmed) EXCEPT !.kind = "ready", !.writes = w])

OnReady(st, trimmed) ==
    LET w == FlushWrites(st.pending)
    IN  Record([st EXCEPT !.ready = TRUE,
                          !.stdin = @ \o w,
                          !.pending = <<>>],
               [NoEffect(trimmed) EXCEPT !.kind = "ready", !.writes = w])

OnKokoroReady(st, trimmed, wsReg) ==
    LET obj == [type |-> "kokoro_ready"]
    IN  Record([st EXCEPT !.ws = WsBroadcastJSON(wsReg, @, obj)],
               [NoEffect(trimmed) EXCEPT !.kind = "kokoro_ready", !.ws = <<obj>>])

OnInterruptAck(st, trimmed, wsReg) ==
    LET obj == [type |-> "interrupt_ack"]
    IN  Record([st EXCEPT !.ws = WsBroadcastJSON(wsReg, @, obj)],
               [NoEffect(trimmed) EXCEPT !.kind = "interrupt_ack", !.ws = <<obj>>])

\* Mutant: a rate of zero is passed on.
OnStreamStart_NoFallback(st, trimmed, wsReg) ==
    LET parts == Split(SubstringFrom(trimmed, 13), ":")
        responseId == parts[1]
        parsed == IF Len(parts) >= 2 THEN ParseInt(parts[2]) ELSE NaN
        sampleRate == IF parsed.nan THEN 24000 ELSE NumToInt(parsed)
        obj == [type |-> "audio_start", responseId |-> responseId,
                sampleRate |-> sampleRate, channels |-> 1, bitDepth |-> 16]
    IN  Record([st EXCEPT !.ws = WsBroadcastJSON(wsReg, @, obj)],
               [NoEffect(trimmed) EXCEPT !.kind = "stream_start", !.ws = <<obj>>])

OnStreamStart(st, trimmed, wsReg) ==
    LET parts == Split(SubstringFrom(trimmed, 13), ":")
        responseId == parts[1]
        parsed == IF Len(parts) >= 2 THEN ParseInt(parts[2]) ELSE NaN
        sampleRate == IF parsed.nan \/ IsZero(parsed) THEN 24000
                      ELSE NumToInt(parsed)
        obj == [type |-> "audio_start", responseId |-> responseId,
                sampleRate |-> sampleRate, channels |-> 1, bitDepth |-> 16]
    IN  Record([st EXCEPT !.ws = WsBroadcastJSON(wsReg, @, obj)],
               [NoEffect(trimmed) EXCEPT !.kind = "stream_start", !.ws = <<obj>>])

OnStreamChunk(st, trimmed, wsReg) ==
    LET firstColon == 13
        secondColon == IndexOf(trimmed, ":", firstColon)
        thirdColon == IndexOf(trimmed, ":", secondColon + 1)
        chunkIndex == ParseInt(Substring(trimmed, secondColon + 1, thirdColon))
        b64Data == SubstringFrom(trimmed, thirdColon + 1)
        pcmBuffer == Base64Decode(b64Data)
        header == WriteUInt32LE(chunkIndex)
        binaryMsg == header.bytes \o pcmBuffer
    IN  IF header.threw
        THEN Record(st, [NoEffect(trimmed) EXCEPT !.kind = "stream_chunk",
                                                  !.threw = TRUE])
        ELSE Record([st EXCEPT !.ws = WsBroadcastBinary(wsReg, @, binaryMsg)],
                    [NoEffect(trimmed) EXCEPT !.kind = "stream_chunk",
                                              !.ws = <<[bin |-> binaryMsg]>>])

\* Mutant: the id is taken one character too late.
OnStreamEnd_ShiftedId(st, trimmed, wsReg) ==
    LET obj == [type |-> "audio_end", responseId |-> SubstringFrom(trimmed, 12)]
    IN  Record([st EXCEPT !.ws = WsBroadcastJSON(wsReg, @, obj)],
               [NoEffect(trimmed) EXCEPT !.kind = "stream_end", !.ws = <<obj>>])

OnStreamEnd(st, trimmed, wsReg) ==
    LET obj == [type |-> "audio_end", responseId |-> SubstringFrom(trimmed, 11)]
    IN  Record([st EXCEPT !.ws = WsBroadcastJSON(wsReg, @, obj)],
               [NoEffect(trimmed) EXCEPT !.kind = "stream_end", !.ws = <<obj>>])

\* Mutant: the line is also queued as plain text.
OnAudio_AlsoQueued(st, trimmed, sseReg) ==
    LET audioFile == Trim(SubstringFrom(trimmed, 6))
        ev == [event |-> "audio", data |-> <<"file", audioFile>>]
    IN  Record([st EXCEPT !.sse = BroadcastEvent(sseReg, @, ev),
                          !.mq = Append(@, trimmed)],
               [NoEffect(trimmed) EXCEPT !.kind = "audio", !.sse = <<ev>>,
                                         !.mq = <<trimmed>>])

OnAudio(st, trimmed, sseReg) ==
    LET audioFile == Trim(SubstringFrom(trimmed, 6))
        ev == [event |-> "audio", data |-> <<"file", audioFile>>]
    IN  Record([st EXCEPT !.sse = BroadcastEvent(sseReg, @, ev)],
               [NoEffect(trimmed) EXCEPT !.kind = "audio", !.sse = <<ev>>])

OnPlainText(st, trimmed) ==
    Record([st EXCEPT !.mq = Append(@, trimmed)],
           [NoEffect(trimmed) EXCEPT !.kind = "text", !.mq = <<trimmed>>])

\* Mutant: the last branch does not test the trimmed line, so a line that
\* is empty after trimming is queued as plain text.
Classify_QueuesBlank(st, line, sseReg, wsReg) ==
    LET trimmed == Trim(line)
    IN  IF trimmed = READY THEN OnReady(st, trimmed)
        ELSE IF trimmed = KOKORO_READY THEN OnKokoroReady(st, trimmed, wsReg)
        ELSE IF trimmed = INTERRUPT_ACK THEN OnInterruptAck(st, trimmed, wsReg)
        ELSE IF StartsWith(trimmed, STREAM_START) THEN OnStreamStart(st, trimmed, wsReg)
        ELSE IF StartsWith(trimmed, STREAM_CHUNK) THEN OnStreamChunk(st, trimmed, wsReg)
        ELSE IF StartsWith(trimmed, STREAM_END) THEN OnStreamEnd(st, trimmed, wsReg)
        ELSE IF StartsWith(trimmed, AUDIO) THEN OnAudio(st, trimmed, sseReg)
        ELSE OnPlainText(st, trimmed)

\* the if / else-if chain over one complete line
Classify(st, line, sseReg, wsReg) ==
    LET trimmed == Trim(line)
    IN  IF trimmed = READY THEN OnReady(st, trimmed)
        ELSE IF trimmed = KOKORO_READY THEN OnKokoroReady(st, trimmed, wsReg)
        ELSE IF trimmed = INTERRUPT_ACK THEN OnInterruptAck(st, trimmed, wsReg)
        ELSE IF StartsWith(trimmed, STREAM_START) THEN OnStreamStart(st, trimmed, wsReg)
        ELSE IF StartsWith(trimmed, STREAM_CHUNK) THEN OnStreamChunk(st, trimmed, wsReg)
        ELSE IF StartsWith(trimmed, STREAM_END) THEN OnStreamEnd(st, trimmed, wsReg)
        ELSE IF StartsWith(trimmed, AUDIO) THEN OnAudio(st, trimmed, sseReg)
        ELSE IF trimmed # <<>> THEN OnPlainText(st, trimmed)
        ELSE Record(st, NoEffect(trimmed))

\* Observation of one line: the registries as the line found them, the
\* connections that were open, and the connections that received something.
Observe(before, after, sseReg, wsReg) ==
    LET k == Len(after.batch)
        sres == [i \in 1..Len(sseReg) |-> sseReg[i].res]
        seen == [after.batch[k] EXCEPT
                   !.sseReg = sres,
                   !.sseOpen = {sres[i] : i \in {j \in 1..Len(sres) :
                                    before.sse[sres[j]].state = "open"}},
                   !.sseGot = {c \in SseIds :
                                 Len(after.sse[c].got) > Len(before.sse[c].got)},
                   !.wsReg = wsReg,
                   !.wsOpen = {wsReg[i] : i \in {j \in 1..Len(wsReg) :
                                   before.ws[wsReg[j]].readyState = 1}},
                   !.wsGot = {c \in WsIds :
                                Len(after.ws[c].got) > Len(before.ws[c].got)}]
    IN  [after EXCEPT !.batch[k] = seen]

ProcessLine(st, line, sseReg, wsReg) ==
    Observe(st, Classify(st, line, sseReg, wsReg), sseReg, wsReg)

\* for (const line of lines): an exception thrown by one line ends the loop
RECURSIVE ProcessLines(_, _, _, _)
ProcessLines(st, lines, sseReg, wsReg) ==
    IF lines = <<>> \/ st.threw THEN st
    ELSE ProcessLines(ProcessLine(st, Head(lines), sseReg, wsReg),
                      Tail(lines), sseReg, wsReg)

\* the carry-over kept by the handler: lines.pop()
CarryOver(lines) == lines[Len(lines)]

\* pythonProcess.stdout.on('data'): the first n bytes of the pipe arrive as
\* one data event.  An exception that leaves the handler is uncaught and
\* ends the server process.
StdoutData(n) ==
    /\ alive
    /\ n \in 1..Len(pipe)
    /\ LET data == SubSeq(pipe, 1, n)
           output == Utf8Decode(data)
           lines == Split(outputBuffer \o output, NL)
           st0 == [ready |-> pythonReady, pending |-> pendingMessages,
                   mq |-> messageQueue, stdin |-> stdinWrites,
                   sse |-> sseConn, ws |-> wsConn, threw |-> FALSE,
                   processed |-> processed, batch |-> <<>>,
                   hub |-> hubLog]
           st == ProcessLines(st0, SubSeq(lines, 1, Len(lines) - 1),
                              sseClients, wsClients)
       IN  /\ pipe' = SubSeq(pipe, n + 1, Len(pipe))
           /\ rxBytes' = rxBytes \o data
           /\ rxText' = rxText \o output
           /\ outputBuffer' = CarryOver(lines)
           /\ pythonReady' = st.ready
           /\ pendingMessages' = st.pending
           /\ messageQueue' = st.mq
           /\ stdinWrites' = st.stdin
           /\ sseConn' = st.sse
           /\ wsConn' = st.ws
           /\ processed' = st.processed
           /\ batch' = st.batch
           /\ hubLog' = st.hub
           /\ alive' = ~st.threw
    /\ UNCHANGED << emitted, sseClients, wsClients, now, cmds, lastOp, queuedLog >>
    /\ UNCHANGED << pulled, playerVars >>

\* the worker prints one line
WorkerEmit(line) ==
    /\ emitted < MaxEmit
    /\ emitted' = emitted + 1
    /\ pipe' = pipe \o line \o <<NL>>
    /\ UNCHANGED << alive, outputBuffer, pythonReady, pendingMessages,
                    messageQueue, stdinWrites, sseClients, sseConn, wsClients,
                    wsConn, now, cmds, lastOp, queuedLog, rxBytes, rxText,
                    processed, batch >>
    /\ UNCHANGED << hubLog, pulled, playerVars >>

(***************************************************************************)
(* Client requests.  lastOp records the last request and its response:     *)
(*   op, ready (the flag when the request arrived), status, body,          *)
(*   wrote (the stdin writes the request made), pendBefore, pendAfter,     *)
(*   the request fields, and for /text-output the text sent, the plain-text *)
(*   queue as the request found it and the number of worker lines          *)
(*   classified by then.                                                   *)
(***************************************************************************)
NoOp ==
    [op |-> "none", ready |-> FALSE, status |-> 0, body |-> "",
     wrote |-> <<>>, pendBefore |-> <<>>, pendAfter |-> <<>>,
     hasMessage |-> FALSE, message |-> <<>>, enableTts |-> "undefined",
     enabled |-> "undefined", wsMsg |-> "none",
     text |-> <<>>, mqBefore |-> <<>>, lines |-> 0]

\* a JavaScript value used as a condition
Truthy(v) == v = "true"

\* `${prefix}${message}\n` of /text-message
TextLine(message, enableTts) ==
    (IF Truthy(enableTts) THEN TEXT_TTS ELSE TEXT) \o message \o <<NL>>

\* Mutant: only a missing message is rejected; an empty one is accepted.
TextMessage_EmptyAccepted(hasMessage, message, enableTts) ==
    /\ alive
    /\ cmds < MaxCmds
    /\ cmds' = cmds + 1
    /\ LET req == [NoOp EXCEPT !.op = "text-message", !.ready = pythonReady,
                               !.hasMessage = hasMessage, !.message = message,
                               !.enableTts = enableTts,
                               !.pendBefore = pendingMessages,
                               !.pendAfter = pendingMessages]
       IN  IF ~hasMessage
           THEN /\ lastOp' = [req EXCEPT !.status = 400,
                                         !.body = "No message provided"]
                /\ UNCHANGED << stdinWrites, pendingMessages, queuedLog >>
           ELSE IF pythonReady
           THEN LET w == [text |-> TextLine(message, enableTts), origin |-> "text"]
                IN  /\ stdinWrites' = Append(stdinWrites, w)
                    /\ lastOp' = [req EXCEPT !.status = 200,
                                             !.body = "Message sent",
                                             !.wrote = <<w.text>>]
                    /\ UNCHANGED << pendingMessages, queuedLog >>
           ELSE LET entry == [message |-> message, enableTts |-> enableTts]
                IN  /\ pendingMessages' = Append(pendingMessages, entry)
                    /\ queuedLog' = Append(queuedLog, entry)
                    /\ lastOp' = [req EXCEPT !.status = 200,
                                             !.body = "Message queued",
                                             !.pendAfter = Append(pendingMessages, entry)]
                    /\ UNCHANGED stdinWrites
    /\ UNCHANGED << pipe, emitted, alive, outputBuffer, pythonReady,
                    messageQueue, sseClients, sseConn, wsClients, wsConn, now,
                    rxBytes, rxText, processed, batch >>
    /\ UNCHANGED << hubLog, pulled, playerVars >>

\* app.post('/text-message')
TextMessage(hasMessage, message, enableTts) ==
    /\ alive
    /\ cmds < MaxCmds
    /\ cmds' = cmds + 1
    /\ LET req == [NoOp EXCEPT !.op = "text-message", !.ready = pythonReady,
                               !.hasMessage = hasMessage, !.message = message,
                               !.enableTts = enableTts,
                               !.pendBefore = pendingMessages,
                               !.pendAfter = pendingMessages]
       IN  IF ~hasMessage \/ message = <<>>
           THEN /\ lastOp' = [req EXCEPT !.status = 400,
                                         !.body = "No message provided"]
                /\ UNCHANGED << stdinWrites, pendingMessages, queuedLog >>
           ELSE IF pythonReady
           THEN LET w == [text |-> TextLine(message, enableTts), origin |-> "text"]
                IN  /\ stdinWrites' = Append(stdinWrites, w)
                    /\ lastOp' = [req EXCEPT !.status = 200,
                                             !.body = "Message sent",
                                             !.wrote = <<w.text>>]
                    /\ UNCHANGED << pendingMessages, queuedLog >>
           ELSE LET entry == [message |-> message, enableTts |-> enableTts]
                IN  /\ pendingMessages' = Append(pendingMessages, entry)
                    /\ queuedLog' = Append(queuedLog, entry)
                    /\ lastOp' = [req EXCEPT !.status = 200,
                                             !.body = "Message queued",
                                             !.pendAfter = Append(pendingMessages, entry)]
                    /\ UNCHANGED stdinWrites
    /\ UNCHANGED << pipe, emitted, alive, outputBuffer, pythonReady,
                    messageQueue, sseClients, sseConn, wsClients, wsConn, now,
                    rxBytes, rxText, processed, batch >>
    /\ UNCHANGED << hubLog, pulled, playerVars >>

\* app.post('/tts-setting'); enabled is "true", "false", or a value that is
\* not a boolean
TtsSetting(enabled) ==
    /\ alive
    /\ cmds < MaxCmds
    /\ cmds' = cmds + 1
    /\ LET req == [NoOp EXCEPT !.op = "tts-setting", !.ready = pythonReady,
                               !.enabled = enabled,
                               !.pendBefore = pendingMessages,
                               !.pendAfter = pendingMessages]
       IN  IF enabled \notin {"true", "false"}
           THEN /\ lastOp' = [req EXCEPT !.status = 400,
                                         !.body = "Invalid TTS setting"]
                /\ UNCHANGED stdinWrites
           ELSE IF pythonReady
           THEN LET w == [text |-> TTS_SETTING
                                   \o (IF Truthy(enabled) THEN ON ELSE OFF)
                                   \o <<NL>>,
                          origin |-> "tts"]
                IN  /\ stdinWrites' = Append(stdinWrites, w)
                    /\ lastOp' = [req EXCEPT !.status = 200,
                                             !.body = IF Truthy(enabled)
                                                      THEN "{\"success\":true,\"enabled\":true}"
                                                      ELSE "{\"success\":true,\"enabled\":false}",
                                             !.wrote = <<w.text>>]
           ELSE /\ lastOp' = [req EXCEPT !.status = 503,
                                         !.body = "Python not ready"]
                /\ UNCHANGED stdinWrites
    /\ UNCHANGED << pipe, emitted, alive, outputBuffer, pythonReady,
                    pendingMessages, messageQueue, sseClients, sseConn,
                    wsClients, wsConn, now, queuedLog, rxBytes, rxText,
                    processed, batch >>
    /\ UNCHANGED << hubLog, pulled, playerVars >>

\* res.json({ ready: pythonReady })
HealthBody(ready) == IF ready THEN "{\"ready\":true}" ELSE "{\"ready\":false}"

\* app.get('/health')
Health ==
    /\ alive
    /\ cmds < MaxCmds
    /\ cmds' = cmds + 1
    /\ lastOp' = [NoOp EXCEPT !.op = "health", !.ready = pythonReady,
                              !.status = 200, !.body = HealthBody(pythonReady),
                              !.pendBefore = pendingMessages,
                              !.pendAfter = pendingMessages]
    /\ UNCHANGED << pipe, emitted, alive, outputBuffer, pythonReady,
                    pendingMessages, messageQueue, stdinWrites, sseClients,
                    sseConn, wsClients, wsConn, now, queuedLog, rxBytes,
                    rxText, processed, batch >>
    /\ UNCHANGED << hubLog, pulled, playerVars >>

\* Array.prototype.join(sep) on an array of strings
RECURSIVE Join(_, _)
Join(a, sep) ==
    IF a = <<>> THEN <<>>
    ELSE IF Len(a) = 1 THEN a[1]
    ELSE a[1] \o sep \o Join(Tail(a), sep)

\* Mutant: the queue is sent and not cleared.
TextOutput_KeepsQueue ==
    /\ alive
    /\ cmds < MaxCmds
    /\ cmds' = cmds + 1
    /\ LET messages == Join(messageQueue, <<NL>>)
       IN  /\ lastOp' = [NoOp EXCEPT !.op = "text-output", !.ready = pythonReady,
                                     !.status = 200, !.text = messages,
                                     !.mqBefore = messageQueue,
                                     !.lines = Len(processed)]
           /\ pulled' = Append(pulled, messages)
    /\ UNCHANGED << pipe, emitted, alive, outputBuffer, pythonReady,
                    pendingMessages, messageQueue, stdinWrites, sseClients,
                    sseConn, wsClients, wsConn, now, queuedLog, rxBytes,
                    rxText, processed, batch, hubLog, playerVars >>

\* app.get('/text-output')
TextOutput ==
    /\ alive
    /\ cmds < MaxCmds
    /\ cmds' = cmds + 1
    /\ LET req == [NoOp EXCEPT !.op = "text-output", !.ready = pythonReady,
                               !.status = 200, !.mqBefore = messageQueue,
                               !.lines = Len(processed)]
       IN  IF Len(messageQueue) > 0
           THEN LET messages == Join(messageQueue, <<NL>>)
                IN  /\ messageQueue' = <<>>
                    /\ lastOp' = [req EXCEPT !.text = messages]
                    /\ pulled' = Append(pulled, messages)
           ELSE /\ lastOp' = req
                /\ pulled' = Append(pulled, <<>>)
                /\ UNCHANGED messageQueue
    /\ UNCHANGED << pipe, emitted, alive, outputBuffer, pythonReady,
                    pendingMessages, stdinWrites, sseClients, sseConn,
                    wsClients, wsConn, now, queuedLog, rxBytes, rxText,
                    processed, batch, hubLog, playerVars >>

(***************************************************************************)
(* Stream (WebSocket) clients.                                             *)
(***************************************************************************)
RECURSIVE Without(_, _)
Without(reg, x) ==
    IF reg = <<>> THEN <<>>
    ELSE IF Head(reg) = x THEN Without(Tail(reg), x)
    ELSE <<Head(reg)>> \o Without(Tail(reg), x)

InSeq(reg, x) == \E i \in 1..Len(reg) : reg[i] = x

\* wss.on('connection'): wsClients.add(ws)
WsConnect(c) ==
    /\ alive
    /\ wsConn[c].readyState = 0
    /\ wsConn' = [wsConn EXCEPT ![c].readyState = 1,
                                ![c].since = Len(hubLog.ws)]
    /\ wsClients' = IF InSeq(wsClients, c) THEN wsClients ELSE Append(wsClients, c)
    /\ UNCHANGED << pipe, emitted, alive, outputBuffer, pythonReady,
                    pendingMessages, messageQueue, stdinWrites, sseClients,
                    sseConn, now, cmds, lastOp, queuedLog, rxBytes, rxText,
                    processed, batch >>
    /\ UNCHANGED << hubLog, pulled, playerVars >>

\* The messages a stream client may send, by what JSON.parse makes of them:
\*   "interrupt"  {"type":"interrupt"}
\*   "other"      valid JSON of another type
\*   "null"       the JSON text null (msg.type throws inside the try)
\*   "invalid"    not JSON (JSON.parse throws inside the try)
WsMessages == {"interrupt", "other", "null", "invalid"}

\* Mutant: an interrupt that arrives before readiness is queued like a
\* text command instead of being written.
WsMessage_QueuesUntilReady(c, m) ==
    /\ alive
    /\ cmds < MaxCmds
    /\ InSeq(wsClients, c)
    /\ wsConn[c].readyState = 1
    /\ cmds' = cmds + 1
    /\ LET req == [NoOp EXCEPT !.op = "ws-message", !.ready = pythonReady,
                               !.wsMsg = m,
                               !.pendBefore = pendingMessages,
                               !.pendAfter = pendingMessages]
           w == [text |-> INTERRUPT \o <<NL>>, origin |-> "interrupt"]
           entry == [message |-> INTERRUPT, enableTts |-> "false"]
       IN  IF m = "interrupt" /\ pythonReady
           THEN /\ stdinWrites' = Append(stdinWrites, w)
                /\ lastOp' = [req EXCEPT !.wrote = <<w.text>>]
                /\ UNCHANGED pendingMessages
           ELSE IF m = "interrupt"
           THEN /\ pendingMessages' = Append(pendingMessages, entry)
                /\ lastOp' = [req EXCEPT !.pendAfter = Append(pendingMessages, entry)]
                /\ UNCHANGED stdinWrites
           ELSE /\ lastOp' = req
                /\ UNCHANGED << stdinWrites, pendingMessages >>
    /\ UNCHANGED << pipe, emitted, alive, outputBuffer, pythonReady,
                    messageQueue, sseClients, sseConn, wsClients, wsConn, now,
                    queuedLog, rxBytes, rxText, processed, batch >>
    /\ UNCHANGED << hubLog, pulled, playerVars >>

\* Mutant: the type of a parsed message is not looked at, so every message
\* that parses to an object is taken for an interrupt.
WsMessage_AnyObjectInterrupts(c, m) ==
    /\ alive
    /\ cmds < MaxCmds
    /\ InSeq(wsClients, c)
    /\ wsConn[c].readyState = 1
    /\ cmds' = cmds + 1
    /\ LET req == [NoOp EXCEPT !.op = "ws-message", !.ready = pythonReady,
                               !.wsMsg = m,
                               !.pendBefore = pendingMessages,
                               !.pendAfter = pendingMessages]
           w == [text |-> INTERRUPT \o <<NL>>, origin |-> "interrupt"]
       IN  IF m \in {"interrupt", "other"}
           THEN /\ stdinWrites' = Append(stdinWrites, w)
                /\ lastOp' = [req EXCEPT !.wrote = <<w.text>>]
           ELSE /\ lastOp' = req
                /\ UNCHANGED stdinWrites
    /\ UNCHANGED << pipe, emitted, alive, outputBuffer, pythonReady,
                    pendingMessages, messageQueue, sseClients, sseConn,
                    wsClients, wsConn, now, queuedLog, rxBytes, rxText,
                    processed, batch >>
    /\ UNCHANGED << hubLog, pulled, playerVars >>

\* ws.on('message')
WsMessage(c, m) ==
    /\ alive
    /\ cmds < MaxCmds
    /\ InSeq(wsClients, c)
    /\ wsConn[c].readyState = 1
    /\ cmds' = cmds + 1
    /\ LET req == [NoOp EXCEPT !.op = "ws-message", !.ready = pythonReady,
                               !.wsMsg = m,
                               !.pendBefore = pendingMessages,
                               !.pendAfter = pendingMessages]
           w == [text |-> INTERRUPT \o <<NL>>, origin |-> "interrupt"]
       IN  IF m = "interrupt"
           THEN /\ stdinWrites' = Append(stdinWrites, w)
                /\ lastOp' = [req EXCEPT !.wrote = <<w.text>>]
           ELSE /\ lastOp' = req
                /\ UNCHANGED stdinWrites
    /\ UNCHANGED << pipe, emitted, alive, outputBuffer, pythonReady,
                    pendingMessages, messageQueue, sseClients, sseConn,
                    wsClients, wsConn, now, queuedLog, rxBytes, rxText,
                    processed, batch >>
    /\ UNCHANGED << hubLog, pulled, playerVars >>

\* the connection starts to close: readyState leaves OPEN before the close
\* event is delivered
WsClosing(c) ==
    /\ alive
    /\ wsConn[c].readyState = 1
    /\ wsConn' = [wsConn EXCEPT ![c].readyState = 2]
    /\ UNCHANGED << pipe, emitted, alive, outputBuffer, pythonReady,
                    pendingMessages, messageQueue, stdinWrites, sseClients,
                    sseConn, wsClients, now, cmds, lastOp, queuedLog, rxBytes,
                    rxText, processed, batch >>
    /\ UNCHANGED << hubLog, pulled, playerVars >>

\* ws.on('close'): wsClients.delete(ws)
WsClose(c) ==
    /\ alive
    /\ wsConn[c].readyState \in {1, 2}
    /\ InSeq(wsClients, c)
    /\ wsConn' = [wsConn EXCEPT ![c].readyState = 3]
    /\ wsClients' = Without(wsClients, c)
    /\ UNCHANGED << pipe, emitted, alive, outputBuffer, pythonReady,
                    pendingMessages, messageQueue, stdinWrites, sseClients,
                    sseConn, now, cmds, lastOp, queuedLog, rxBytes, rxText,
                    processed, batch >>
    /\ UNCHANGED << hubLog, pulled, playerVars >>

(***************************************************************************)
(* Push (SSE) clients.                                                     *)
(***************************************************************************)
ConnectedEvent == [event |-> "connected", data |-> <<>>]

\* app.get('/events'): the confirmation is written, then the client is
\* registered under clientId = Date.now().  t is the clock reading: never
\* less than the reading before it.
SseConnect(c, t) ==
    /\ alive
    /\ sseConn[c].state = "new"
    /\ t \in now..MaxClock
    /\ now' = t
    /\ LET clientId == t
       IN  /\ sseConn' = [sseConn EXCEPT ![c] = [state |-> "open",
                                                 id |-> clientId,
                                                 got |-> <<ConnectedEvent>>,
                                                 since |-> Len(hubLog.sse)]]
           /\ sseClients' = Append(sseClients, [id |-> clientId, res |-> c])
    /\ UNCHANGED << pipe, emitted, alive, outputBuffer, pythonReady,
                    pendingMessages, messageQueue, stdinWrites, wsClients,
                    wsConn, cmds, lastOp, queuedLog, rxBytes, rxText,
                    processed, batch >>
    /\ UNCHANGED << hubLog, pulled, playerVars >>

\* the client's socket closes; the 'close' event has not been delivered yet
SseSocketClose(c) ==
    /\ alive
    /\ sseConn[c].state = "open"
    /\ sseConn' = [sseConn EXCEPT ![c].state = "closed"]
    /\ UNCHANGED << pipe, emitted, alive, outputBuffer, pythonReady,
                    pendingMessages, messageQueue, stdinWrites, sseClients,
                    wsClients, wsConn, now, cmds, lastOp, queuedLog, rxBytes,
                    rxText, processed, batch >>
    /\ UNCHANGED << hubLog, pulled, playerVars >>

\* sseClients.filter(c => c.id !== clientId)
RECURSIVE FilterOutId(_, _)
FilterOutId(reg, clientId) ==
    IF reg = <<>> THEN <<>>
    ELSE IF Head(reg).id # clientId
         THEN <<Head(reg)>> \o FilterOutId(Tail(reg), clientId)
         ELSE FilterOutId(Tail(reg), clientId)

\* req.on('close') of connection c
SseClose(c) ==
    /\ alive
    /\ sseConn[c].state = "closed"
    /\ sseConn' = [sseConn EXCEPT ![c].state = "gone"]
    /\ sseClients' = FilterOutId(sseClients, sseConn[c].id)
    /\ UNCHANGED << pipe, emitted, alive, outputBuffer, pythonReady,
                    pendingMessages, messageQueue, stdinWrites, wsClients,
                    wsConn, now, cmds, lastOp, queuedLog, rxBytes, rxText,
                    processed, batch >>
    /\ UNCHANGED << hubLog, pulled, playerVars >>

(***************************************************************************)
(* The client-side StreamingAudioPlayer.  Times are integers in            *)
(* milliseconds.  The player's fields are in "player"; "env" holds what    *)
(* the browser keeps for it:                                               *)
(*   clock     the wall clock                                              *)
(*   contexts  every AudioContext created: [born, state]; its currentTime  *)
(*             is the time since it was created                            *)
(*   sources   every AudioBufferSourceNode started: the context, the chunk *)
(*             it plays, its start (context time), its duration and        *)
(*             whether stop() was called on it                             *)
(*   timers    every setTimeout made by endStream: [due, state, session]   *)
(*   ended     every invocation of the completion callback                 *)
(*   errors    exceptions that left a player method                        *)
(*   session   the responseId given to the last startStream, and trace,    *)
(*             what happened to the player since then                      *)
(*   interrupted  the sessions on which interrupt took effect              *)
(*   arrived   every chunk handed to queueChunk, in order                  *)
(* audioContext and endTimeout are 0 for null, else the position of the    *)
(* context or timer in env.  A chunk is [owner, index, samples, fault]:    *)
(* the session the worker produced it for, its sequence number, its number *)
(* of 16-bit samples (more than zero), and what the audio output does when *)
(* the chunk is scheduled: "none" (it works), "buffer" (createBuffer       *)
(* throws) or "start" (source.start throws).  The player is given the      *)
(* samples only.                                                           *)
(***************************************************************************)
\* this._minBufferChunks
MinBufferChunks == 3

DefaultSampleRate == 24000

\* this.audioContext.currentTime + 0.02
StartOffsetMs == 20

\* remaining * 1000 + 50
EndMarginMs == 50

\* samples in one chunk: 250 ms at 24000 Hz, 500 ms at 12000 Hz
ChunkSamples == 6000

\* the step of the clock
TickMs == 1000

\* the sampleRate argument of startStream: missing, or a rate
SampleRates == {0, 12000}

\* the constructor
NewPlayer ==
    [audioContext |-> 0, sampleRate |-> DefaultSampleRate, nextPlayTime |-> 0,
     isPlaying |-> FALSE, scheduledSources |-> <<>>, onPlaybackEnd |-> FALSE,
     endTimeout |-> 0, lastChunkDuration |-> 0, chunkBuffer |-> <<>>,
     playbackStarted |-> FALSE]

NewEnv ==
    [clock |-> 0, ticks |-> 0, calls |-> 0, contexts |-> <<>>,
     sources |-> <<>>, timers |-> <<>>, ended |-> <<>>, errors |-> 0,
     session |-> 0, trace |-> <<>>, interrupted |-> {},
     arrived |-> <<>>]

\* audioContext.currentTime of the player's context
CurrentTime(w) == w.e.clock - w.e.contexts[w.p.audioContext].born

\* buffer.duration = length / sampleRate, in milliseconds
Duration(chunk, sampleRate) == (chunk.samples * 1000) \div sampleRate

\* clearTimeout(id): a timer that fired or was cleared stays as it is
ClearTimeout(timers, id) ==
    IF timers[id].state = "armed"
    THEN [timers EXCEPT ![id].state = "cleared"] ELSE timers

\* if (this._endTimeout) { clearTimeout(this._endTimeout); this._endTimeout = null }
ClearEndTimeout(w) ==
    IF w.p.endTimeout # 0
    THEN [w EXCEPT !.e.timers = ClearTimeout(@, w.p.endTimeout),
                   !.p.endTimeout = 0]
    ELSE w

\* for (const source of this.scheduledSources) try { source.stop() } catch {}
StopSources(w) ==
    [w EXCEPT !.e.sources =
        [i \in 1..Len(@) |->
            IF \E k \in 1..Len(w.p.scheduledSources) : w.p.scheduledSources[k] = i
            THEN [@[i] EXCEPT !.stopped = TRUE] ELSE @[i]]]

\* audioContext.close() unless it is closed already; this.audioContext = null
CloseContext(w) ==
    LET ac == w.p.audioContext
    IN  IF ac # 0
        THEN [w EXCEPT !.e.contexts[ac].state = "closed", !.p.audioContext = 0]
        ELSE w

\* _cleanup()
Cleanup(w) == CloseContext([w EXCEPT !.p.scheduledSources = <<>>])

\* if (this.onPlaybackEnd) this.onPlaybackEnd()
InvokeOnPlaybackEnd(w, via) ==
    IF w.p.onPlaybackEnd
    THEN [w EXCEPT !.e.ended = Append(@, [session |-> w.e.session,
                                          at |-> w.e.clock, via |-> via])]
    ELSE w

\* dispose()
Dispose(w) ==
    LET w1 == StopSources(ClearEndTimeout(w))
        w2 == CloseContext([w1 EXCEPT !.p.scheduledSources = <<>>])
    IN  [w2 EXCEPT !.p.isPlaying = FALSE, !.p.nextPlayTime = 0]

\* startStream(responseId, sampleRate); sampleRate 0 stands for a missing or
\* zero rate
StartStream(w, responseId, sampleRate) ==
    LET w1 == Dispose(w)
        rate == IF sampleRate = 0 THEN DefaultSampleRate ELSE sampleRate
        ctx == [born |-> w.e.clock, state |-> "running", sampleRate |-> rate]
    IN  [w1 EXCEPT !.p.sampleRate = rate,
                   !.e.contexts = Append(@, ctx),
                   !.p.audioContext = Len(w.e.contexts) + 1,
                   !.p.isPlaying = TRUE,
                   !.p.scheduledSources = <<>>,
                   !.p.lastChunkDuration = 0,
                   !.p.chunkBuffer = <<>>,
                   !.p.playbackStarted = FALSE]

\* Mutant: a start time in the past is kept.
ScheduleChunk_NoClamp(w, chunk) ==
    LET dur == Duration(chunk, w.p.sampleRate)
        startAt == w.p.nextPlayTime
        source == [ctx |-> w.p.audioContext, chunk |-> chunk,
                   start |-> startAt, dur |-> dur, stopped |-> FALSE]
        w1 == [w EXCEPT !.e.sources = Append(@, source),
                        !.p.lastChunkDuration = dur,
                        !.p.nextPlayTime = startAt + dur,
                        !.p.scheduledSources = Append(@, Len(w.e.sources) + 1)]
    IN  ClearEndTimeout(w1)

\* _scheduleChunk(pcmInt16Data), called with a context
ScheduleChunk(w, chunk) ==
    LET dur == Duration(chunk, w.p.sampleRate)
        nowT == CurrentTime(w)
        startAt == IF w.p.nextPlayTime < nowT THEN nowT ELSE w.p.nextPlayTime
        source == [ctx |-> w.p.audioContext, chunk |-> chunk,
                   start |-> startAt, dur |-> dur, stopped |-> FALSE]
        w1 == [w EXCEPT !.e.sources = Append(@, source),
                        !.p.lastChunkDuration = dur,
                        !.p.nextPlayTime = startAt + dur,
                        !.p.scheduledSources = Append(@, Len(w.e.sources) + 1)]
    IN  ClearEndTimeout(w1)

\* _scheduleChunk(pcmInt16Data) with the exceptions of the audio output:
\* createBuffer throws before anything is assigned, source.start throws after
\* nextPlayTime was raised to the current time
ScheduleOrThrow(w, chunk) ==
    IF chunk.fault = "buffer" THEN [threw |-> TRUE, w |-> w]
    ELSE IF chunk.fault = "start"
    THEN [threw |-> TRUE,
          w |-> [w EXCEPT !.p.nextPlayTime = Max(@, CurrentTime(w))]]
    ELSE [threw |-> FALSE, w |-> ScheduleChunk(w, chunk)]

\* for (const chunk of this._chunkBuffer) this._scheduleChunk(chunk): an
\* exception ends the loop
RECURSIVE ScheduleAll(_, _)
ScheduleAll(w, chunks) ==
    IF chunks = <<>> THEN [threw |-> FALSE, w |-> w]
    ELSE LET r == ScheduleOrThrow(w, Head(chunks))
         IN  IF r.threw THEN r ELSE ScheduleAll(r.w, Tail(chunks))

\* _flushBufferAndStart(): reading currentTime of a null context throws
\* after _playbackStarted was set; an exception of _scheduleChunk leaves the
\* buffer as it is
FlushBufferAndStart(w) ==
    LET w1 == [w EXCEPT !.p.playbackStarted = TRUE]
    IN  IF w.p.audioContext = 0
        THEN [threw |-> TRUE, w |-> w1]
        ELSE LET w2 == [w1 EXCEPT !.p.nextPlayTime = CurrentTime(w) + StartOffsetMs]
                 r == ScheduleAll(w2, w.p.chunkBuffer)
             IN  IF r.threw THEN r
                 ELSE [threw |-> FALSE, w |-> [r.w EXCEPT !.p.chunkBuffer = <<>>]]

\* Mutant: playback starts one chunk early.
QueueChunk_StartsEarly(w, chunk) ==
    IF w.p.audioContext = 0 \/ ~w.p.isPlaying THEN [threw |-> FALSE, w |-> w]
    ELSE IF ~w.p.playbackStarted
    THEN LET w1 == [w EXCEPT !.p.chunkBuffer = Append(@, chunk)]
         IN  IF Len(w1.p.chunkBuffer) >= MinBufferChunks - 1
             THEN FlushBufferAndStart(w1)
             ELSE [threw |-> FALSE, w |-> w1]
    ELSE ScheduleOrThrow(w, chunk)

\* Mutant: a chunk is buffered before the session is looked at.
QueueChunk_BuffersWhenIdle(w, chunk) ==
    IF w.p.audioContext = 0 \/ ~w.p.isPlaying
    THEN [threw |-> FALSE, w |-> [w EXCEPT !.p.chunkBuffer = Append(@, chunk)]]
    ELSE IF ~w.p.playbackStarted
    THEN LET w1 == [w EXCEPT !.p.chunkBuffer = Append(@, chunk)]
         IN  IF Len(w1.p.chunkBuffer) >= MinBufferChunks
             THEN FlushBufferAndStart(w1)
             ELSE [threw |-> FALSE, w |-> w1]
    ELSE ScheduleOrThrow(w, chunk)

\* queueChunk(pcmInt16Data): the result says whether an exception left the
\* method
QueueChunk(w, chunk) ==
    IF w.p.audioContext = 0 \/ ~w.p.isPlaying THEN [threw |-> FALSE, w |-> w]
    ELSE IF ~w.p.playbackStarted
    THEN LET w1 == [w EXCEPT !.p.chunkBuffer = Append(@, chunk)]
         IN  IF Len(w1.p.chunkBuffer) >= MinBufferChunks
             THEN FlushBufferAndStart(w1)
             ELSE [threw |-> FALSE, w |-> w1]
    ELSE ScheduleOrThrow(w, chunk)

\* setTimeout(callback, remaining * 1000 + 50)
ArmEndTimeout(w) ==
    LET remaining == Max(0, w.p.nextPlayTime - CurrentTime(w))
        timer == [due |-> w.e.clock + remaining + EndMarginMs,
                  state |-> "armed", session |-> w.e.session]
    IN  [w EXCEPT !.e.timers = Append(@, timer),
                  !.p.endTimeout = Len(w.e.timers) + 1]

\* Mutant: endStream arms the timer without flushing a short buffer.
EndStream_NoFlush(w) ==
    IF w.p.audioContext = 0 THEN [threw |-> FALSE, w |-> w]
    ELSE [threw |-> FALSE, w |-> ArmEndTimeout(w)]

\* endStream(): the result says whether an exception left the method
EndStream(w) ==
    LET flushed == IF ~w.p.playbackStarted /\ Len(w.p.chunkBuffer) > 0
                   THEN FlushBufferAndStart(w)
                   ELSE [threw |-> FALSE, w |-> w]
    IN  IF flushed.threw THEN flushed
        ELSE IF flushed.w.p.audioContext = 0 THEN flushed
        ELSE [threw |-> FALSE, w |-> ArmEndTimeout(flushed.w)]

\* the callback given to setTimeout by endStream
EndTimeoutCallback(w) ==
    InvokeOnPlaybackEnd(Cleanup([w EXCEPT !.p.isPlaying = FALSE]), "timer")

\* interrupt()
Interrupt(w) ==
    IF ~w.p.isPlaying THEN w
    ELSE LET w1 == StopSources(ClearEndTimeout(w))
             w2 == Cleanup([w1 EXCEPT !.p.isPlaying = FALSE])
         IN  InvokeOnPlaybackEnd(
                 [w2 EXCEPT !.e.interrupted = @ \cup {w.e.session}], "interrupt")

(***************************************************************************)
(* The player's actions: the calls its owner makes, the clock, the timers. *)
(***************************************************************************)
World == [p |-> player, e |-> env]

\* one more call of a player method, noted in the trace
Called(w, what) ==
    [w EXCEPT !.e.calls = @ + 1, !.e.trace = Append(@, what)]

\* the player and its surroundings become w
Becomes(w) ==
    /\ player' = w.p
    /\ env' = w.e
    /\ UNCHANGED serverVars

\* player.onPlaybackEnd = callback: the owner registers its callback, if it
\* registers one, before it uses the player
SetOnPlaybackEnd ==
    /\ ~player.onPlaybackEnd
    /\ env.calls = 0
    /\ Becomes([World EXCEPT !.p.onPlaybackEnd = TRUE])

\* the owner calls startStream for the next response
PlayerStart(sampleRate) ==
    /\ env.calls < MaxCalls
    /\ LET responseId == env.session + 1
           w == StartStream(World, responseId, sampleRate)
       IN  Becomes([w EXCEPT !.e.calls = @ + 1,
                             !.e.session = responseId,
                             !.e.trace = <<"start">>])

\* chunks of session s handed to the player so far
Delivered(e, s) ==
    Cardinality({i \in 1..Len(e.arrived) : e.arrived[i].owner = s})

\* a binary frame arrives: the chunk was produced for session owner, and
\* the audio output answers its scheduling with fault
PlayerChunk(owner, fault) ==
    /\ env.calls < MaxCalls
    /\ LET chunk == [owner |-> owner, index |-> Delivered(env, owner),
                     samples |-> ChunkSamples, fault |-> fault]
           r == QueueChunk(World, chunk)
       IN  Becomes([Called(r.w, "chunk") EXCEPT
                       !.e.arrived = Append(@, chunk),
                       !.e.errors = IF r.threw THEN @ + 1 ELSE @])

PlayerEnd ==
    /\ env.calls < MaxCalls
    /\ LET r == EndStream(World)
       IN  Becomes([Called(r.w, "end") EXCEPT
                       !.e.errors = IF r.threw THEN @ + 1 ELSE @])

PlayerInterrupt ==
    /\ env.calls < MaxCalls
    /\ Becomes(Called(Interrupt(World), "interrupt"))

PlayerDispose ==
    /\ env.calls < MaxCalls
    /\ Becomes(Called(Dispose(World), "dispose"))

\* time passes
Tick ==
    /\ env.ticks < MaxTicks
    /\ Becomes([World EXCEPT !.e.clock = @ + TickMs, !.e.ticks = @ + 1])

\* time passes until the next armed timer is due
TimePasses ==
    LET armed == {id \in 1..Len(env.timers) : env.timers[id].state = "armed"}
    IN  /\ armed # {}
        /\ LET next == CHOOSE id \in armed :
                           \A o \in armed : env.timers[id].due <= env.timers[o].due
           IN  /\ env.timers[next].due > env.clock
               /\ Becomes([World EXCEPT !.e.clock = env.timers[next].due])

\* a timer that is due runs its callback
EndTimeoutFires(id) ==
    /\ id \in 1..Len(env.timers)
    /\ env.timers[id].state = "armed"
    /\ env.clock >= env.timers[id].due
    /\ LET w == EndTimeoutCallback(World)
       IN  Becomes([w EXCEPT !.e.timers[id].state = "fired",
                             !.e.trace = Append(@, "fire")])

(***************************************************************************)
(* Initial state: the module-level declarations of server.js, and the      *)
(* player as its constructor leaves it.                                    *)
(***************************************************************************)
ServerInit ==
    /\ pipe = <<>>
    /\ emitted = 0
    /\ alive = TRUE
    /\ outputBuffer = <<>>
    /\ pythonReady = FALSE
    /\ pendingMessages = <<>>
    /\ messageQueue = <<>>
    /\ stdinWrites = <<>>
    /\ sseClients = <<>>
    /\ sseConn = [c \in SseIds |-> [state |-> "new", id |-> 0, got |-> <<>>,
                                     since |-> 0]]
    /\ wsClients = <<>>
    /\ wsConn = [c \in WsIds |-> [readyState |-> 0, got |-> <<>>, since |-> 0]]
    /\ now = 0
    /\ cmds = 0
    /\ lastOp = NoOp
    /\ queuedLog = <<>>
    /\ rxBytes = <<>>
    /\ rxText = <<>>
    /\ processed = <<>>
    /\ batch = <<>>
    /\ hubLog = [ws |-> <<>>, sse |-> <<>>]
    /\ pulled = <<>>

Init ==
    /\ ServerInit
    /\ player = NewPlayer
    /\ env = NewEnv

\* A player that has been used before: its owner registered a callback and
\* called startStream, endStream and endStream again (the response was ended
\* twice) at time 0.  The calls that follow are counted from here.
UsedWorld ==
    LET w0 == [p |-> [NewPlayer EXCEPT !.onPlaybackEnd = TRUE], e |-> NewEnv]
        w1 == [StartStream(w0, 1, 0) EXCEPT !.e.session = 1,
                                            !.e.trace = <<"start">>]
        w2 == Called(EndStream(w1).w, "end")
        w3 == Called(EndStream(w2).w, "end")
    IN  [w3 EXCEPT !.e.calls = 0]

InitUsed ==
    /\ ServerInit
    /\ player = UsedWorld.p
    /\ env = UsedWorld.e

(***************************************************************************)
(* Inputs.                                                                 *)
(***************************************************************************)
Colon == <<":">>

\* STREAM_CHUNK lines with a well-formed index and payload, each with the
\* four little-endian bytes of its index and the bytes of its payload
ChunkCases ==
    { [index |-> <<"0">>, le |-> <<0, 0, 0, 0>>,
       b64 |-> <<"A", "Q", "I", "D", "B", "A", "=", "=">>,
       bytes |-> <<1, 2, 3, 4>>],
      [index |-> <<"2", "5", "8">>, le |-> <<2, 1, 0, 0>>,
       b64 |-> <<"/", "w", "=", "=">>,
       bytes |-> <<255>>],
      [index |-> <<"4", "2", "9", "4", "9", "6", "7", "2", "9", "5">>,
       le |-> <<255, 255, 255, 255>>,
       b64 |-> <<"T", "W", "F", "u">>,
       bytes |-> <<77, 97, 110>>] }

ResponseIds == { <<"r", "1">> }

ChunkLine(id, index, b64) == STREAM_CHUNK \o id \o Colon \o index \o Colon \o b64

GoodChunkLines ==
    { ChunkLine(id, c.index, c.b64) : id \in ResponseIds, c \in ChunkCases }

\* STREAM_CHUNK lines whose index is not a number, negative, or beyond 32 bits
BadIndexes ==
    { <<"x">>, <<"-", "1">>,
      <<"4", "2", "9", "4", "9", "6", "7", "2", "9", "6">> }

BadChunkLines ==
    { ChunkLine(id, i, <<"/", "w", "=", "=">>) : id \in ResponseIds, i \in BadIndexes }

StartLine(id, rate) == STREAM_START \o id \o Colon \o rate

BadStartLines == { StartLine(id, <<"h", "z">>) : id \in ResponseIds }

PlainLines == { <<"h", "i">> }

AudioLines == { AUDIO \o <<"f", ".", "w", "a", "v">> }

\* the bodies of POST /text-message
Messages == { <<"h", "i">>, <<"a", NL, "b">> }

TtsFlags == {"true", "false"}

EnabledValues == {"true", "false", "other"}

(***************************************************************************)
(* Specifications.  Each one drives the same handlers with the inputs of   *)
(* one part of the relay.                                                  *)
(***************************************************************************)

\* Line parser: the worker's bytes arrive cut at arbitrary places.
ParserLines ==
    { READY, <<" ", "h", "i", " ">>, <<>>, <<"xC3", "xA9">>, <<"a", "\r">>,
      <<"o", "k">> }

EmitParser == \E l \in ParserLines : WorkerEmit(l)

DataCut == \E n \in 1..Len(pipe) : StdoutData(n)

NextParser == EmitParser \/ DataCut

SpecParser == Init /\ [][NextParser]_vars

\* Process bridge: HTTP commands against the readiness flag.
CmdLines == { READY } \cup PlainLines

EmitCmd == \E l \in CmdLines : WorkerEmit(l)

DataAll == StdoutData(Len(pipe))

PostText ==
    \/ \E m \in Messages, t \in TtsFlags : TextMessage(TRUE, m, t)
    \/ TextMessage(TRUE, <<>>, "undefined")
    \/ TextMessage(FALSE, <<>>, "undefined")

PostTts == \E e \in EnabledValues : TtsSetting(e)

NextCmd == EmitCmd \/ DataAll \/ PostText \/ PostTts \/ Health

SpecCmd == Init /\ [][NextCmd]_vars

\* Process bridge: stream clients that join, send messages and leave, against
\* the readiness flag.
WsOpen == \E c \in WsIds : WsConnect(c)

WsMsg == \E c \in WsIds, m \in WsMessages : WsMessage(c, m)

WsStartClose == \E c \in WsIds : WsClosing(c)

WsClosed == \E c \in WsIds : WsClose(c)

PostHi == \E t \in TtsFlags : TextMessage(TRUE, <<"h", "i">>, t)

NextWs ==
    EmitCmd \/ DataAll \/ PostHi \/ Health \/ WsOpen \/ WsMsg \/ WsClosed

SpecWs == Init /\ [][NextWs]_vars

\* Stream channel: stream lines broadcast to WebSocket clients.
StreamLines ==
    GoodChunkLines \cup BadChunkLines \cup BadStartLines \cup PlainLines

EmitStream == \E l \in StreamLines : WorkerEmit(l)

SseOpenFirst == SseConnect(1, now)

NextStream == EmitStream \/ DataAll \/ WsOpen \/ SseOpenFirst

SpecStream == Init /\ [][NextStream]_vars

\* Push channel: audio events broadcast to SSE clients.
PushLines == AudioLines \cup PlainLines

EmitPush == \E l \in PushLines : WorkerEmit(l)

\* connection c arrives in millisecond c
SseOpen == \E c \in SseIds : SseConnect(c, c)

SseDrop == \E c \in SseIds : SseSocketClose(c)

SseClosed == \E c \in SseIds : SseClose(c)

NextPush == EmitPush \/ DataAll \/ SseOpen \/ SseDrop \/ SseClosed

SpecPush == Init /\ [][NextPush]_vars

\* Both channels: lines that broadcast, to clients that join and leave.  Each
\* line comes with the frames and events it is to produce.
OrderCases ==
    { [line |-> KOKORO_READY, ws |-> << [type |-> "kokoro_ready"] >>, sse |-> <<>>],
      [line |-> ChunkLine(<<"r", "1">>, <<"2", "5", "8">>, <<"/", "w", "=", "=">>),
       ws |-> << [bin |-> <<2, 1, 0, 0, 255>>] >>, sse |-> <<>>],
      [line |-> AUDIO \o <<"f", ".", "w", "a", "v">>, ws |-> <<>>,
       sse |-> << [event |-> "audio",
                   data |-> <<"file", <<"f", ".", "w", "a", "v">> >>] >>],
      [line |-> AUDIO \o <<"g">>, ws |-> <<>>,
       sse |-> << [event |-> "audio", data |-> <<"file", <<"g">> >>] >>] }

EmitOrder == \E c \in OrderCases : WorkerEmit(c.line)

NextOrder ==
    EmitOrder \/ DataAll \/ WsOpen \/ WsStartClose \/ WsClosed \/ SseOpenFirst

SpecOrder == Init /\ [][NextOrder]_vars

\* Stream starts: STREAM_START lines, each with its id field and what
\* parseInt makes of its rate field (given: a number was read).
StartCases ==
    { [line |-> StartLine(<<"r", "1">>, <<"1", "2", "0", "0", "0">>),
       id |-> <<"r", "1">>, given |-> TRUE, rate |-> 12000],
      [line |-> STREAM_START \o <<"r", "2">>,
       id |-> <<"r", "2">>, given |-> FALSE, rate |-> 0],
      [line |-> StartLine(<<"r", "3">>, <<"h", "z">>),
       id |-> <<"r", "3">>, given |-> FALSE, rate |-> 0],
      [line |-> StartLine(<<"r", "4">>, <<"0">>),
       id |-> <<"r", "4">>, given |-> TRUE, rate |-> 0] }

EmitStart == \E c \in StartCases : WorkerEmit(c.line)

NextStart == EmitStart \/ DataAll \/ WsOpen \/ WsStartClose

SpecStart == Init /\ [][NextStart]_vars

\* Control lines: the lines that are answered by a control frame or an audio
\* event, to clients of both channels.  Each line comes with its kind, its
\* response id and its file reference.
ControlCases ==
    { [line |-> KOKORO_READY, kind |-> "kokoro_ready", id |-> <<>>,
       file |-> <<>>],
      [line |-> INTERRUPT_ACK, kind |-> "interrupt_ack", id |-> <<>>,
       file |-> <<>>],
      [line |-> StartLine(<<"r", "1">>, <<"1", "2", "0", "0", "0">>),
       kind |-> "stream_start", id |-> <<"r", "1">>, file |-> <<>>],
      [line |-> STREAM_END \o <<"r", "1">>, kind |-> "stream_end",
       id |-> <<"r", "1">>, file |-> <<>>],
      [line |-> AUDIO \o <<" ", "f", ".", "w", "a", "v">>, kind |-> "audio",
       id |-> <<>>, file |-> <<"f", ".", "w", "a", "v">>] }

EmitControl == \E c \in ControlCases : WorkerEmit(c.line)

NextControl ==
    EmitControl \/ DataAll \/ WsOpen \/ WsStartClose \/ SseOpenFirst \/ SseDrop

SpecControl == Init /\ [][NextControl]_vars


\* Push registry: clients that join at any reading of the clock and leave.
SseJoin == \E c \in SseIds, t \in 0..MaxClock : SseConnect(c, t)

NextJoin == EmitPush \/ DataAll \/ SseJoin \/ SseDrop \/ SseClosed

SpecJoin == Init /\ [][NextJoin]_vars

\* Pull endpoint: lines of every kind, fetched by /text-output.
PullLines ==
    { READY, KOKORO_READY, INTERRUPT_ACK, <<>>, <<"h", "i">>, <<"o", "k">>,
      READY \o <<"!">>, <<" ">> \o STREAM_END \o <<"r", "1">>,
      StartLine(<<"r", "1">>, <<"h", "z">>),
      ChunkLine(<<"r", "1">>, <<"0">>, <<"/", "w", "=", "=">>),
      ChunkLine(<<"r", "1">>, <<"-", "1">>, <<"/", "w", "=", "=">>) }
      \cup AudioLines

EmitPull == \E l \in PullLines : WorkerEmit(l)

NextPull == EmitPull \/ DataAll \/ TextOutput

SpecPull == Init /\ [][NextPull]_vars

\* Client-side player: any sequence of calls, clock steps and timer firings.
StartAny == \E r \in SampleRates : PlayerStart(r)

\* a chunk of the current session (of the first one when none has started)
ChunkNow == PlayerChunk(Max(env.session, 1), "none")

TimerAny == \E id \in 1..Len(env.timers) : EndTimeoutFires(id)

NextPlayer ==
    \/ SetOnPlaybackEnd
    \/ StartAny
    \/ ChunkNow
    \/ PlayerEnd
    \/ PlayerInterrupt
    \/ PlayerDispose
    \/ Tick
    \/ TimerAny

SpecPlayer == Init /\ [][NextPlayer]_vars

\* Client-side player whose timers run: time passes as long as a timer is
\* armed, and a timer that is due fires.
NextLive ==
    \/ SetOnPlaybackEnd
    \/ StartAny
    \/ ChunkNow
    \/ PlayerEnd
    \/ PlayerInterrupt
    \/ TimePasses
    \/ TimerAny

SpecPlayerLive ==
    Init /\ [][NextLive]_vars /\ WF_vars(TimePasses) /\ WF_vars(TimerAny)

\* Client-side player whose audio output fails for some chunks.
ChunkFaulty ==
    \E f \in {"buffer", "start"} : PlayerChunk(Max(env.session, 1), f)

NextFault ==
    \/ SetOnPlaybackEnd
    \/ StartAny
    \/ ChunkNow
    \/ ChunkFaulty
    \/ PlayerEnd
    \/ TimePasses
    \/ TimerAny

SpecFault == Init /\ [][NextFault]_vars

\* Client-side player that is used again for the next responses.
NextReuse == StartAny \/ ChunkNow \/ PlayerEnd \/ Tick \/ TimerAny

SpecReuse == InitUsed /\ [][NextReuse]_vars

\* Client-side player whose frames may come late: a binary frame carries a
\* chunk of the current session or of an earlier one.
ChunkAny == \E o \in 1..Max(env.session, 1) : PlayerChunk(o, "none")

NextStale == StartAny \/ ChunkAny \/ PlayerEnd \/ PlayerInterrupt \/ Tick

SpecStale == Init /\ [][NextStale]_vars

(***************************************************************************)
(* Properties.  Operators used only to state them come first.              *)
(***************************************************************************)
\* Blank lines: worker lines that are empty or hold white space only, among
\* lines that have an effect, with clients connected and a command pending.
BlankLines == { <<>>, <<" ">>, <<"\t", "\r">> }

EmitBlank == \E l \in BlankLines \cup CmdLines : WorkerEmit(l)

NextBlank == EmitBlank \/ DataAll \/ PostHi \/ WsOpen \/ SseOpenFirst

SpecBlank == Init /\ [][NextBlank]_vars

NewlineCount(t) == Cardinality({i \in 1..Len(t) : t[i] = NL})

\* position of the k-th newline of t (0 for k = 0)
NewlineAt(t, k) ==
    IF k = 0 THEN 0
    ELSE CHOOSE i \in 1..Len(t) :
           t[i] = NL /\ Cardinality({j \in 1..i : t[j] = NL}) = k

\* the k-th newline-terminated line of t, without its newline
LineAt(t, k) == SubSeq(t, NewlineAt(t, k - 1) + 1, NewlineAt(t, k) - 1)

\* the text of t after its last newline
Unterminated(t) == SubSeq(t, NewlineAt(t, NewlineCount(t)) + 1, Len(t))

IsSuffix(a, b) == Len(a) <= Len(b) /\ SubSeq(b, Len(b) - Len(a) + 1, Len(b)) = a

\* texts written to the worker by the READY flush, in order
FlushedTexts ==
    LET isFlush(w) == w.origin = "flush"
        f == SelectSeq(stdinWrites, isFlush)
    IN  [i \in 1..Len(f) |-> f[i].text]

\* what the lines of the last data event broadcast while stream client w was
\* registered and open
RECURSIVE WsDue(_, _)
WsDue(entries, w) ==
    IF entries = <<>> THEN <<>>
    ELSE (IF w \in Head(entries).wsOpen THEN Head(entries).ws ELSE <<>>)
         \o WsDue(Tail(entries), w)

\* what the lines of the last data event broadcast while push client c was
\* registered and open
RECURSIVE SseDue(_, _)
SseDue(entries, c) ==
    IF entries = <<>> THEN <<>>
    ELSE (IF c \in Head(entries).sseOpen THEN Head(entries).sse ELSE <<>>)
         \o SseDue(Tail(entries), c)

\* C1: the commands acknowledged as queued while NotReady are exactly the
\* texts the READY flush writes, in submission order and once each; before
\* READY nothing is flushed and the queue holds them; after it the queue is
\* empty.
C1_QueuedFlushedInOrder ==
    LET expected == [i \in 1..Len(queuedLog) |->
                       TextLine(queuedLog[i].message, queuedLog[i].enableTts)]
    IN  IF pythonReady
        THEN pendingMessages = <<>> /\ FlushedTexts = expected
        ELSE FlushedTexts = <<>> /\ pendingMessages = queuedLog

C1_Witness ==
    /\ pythonReady
    /\ Len(queuedLog) = 2
    /\ queuedLog[1] # queuedLog[2]
    /\ Len(FlushedTexts) = 2

\* the lines the handler classifies when the same bytes arrive as one block
OneBlockLines(bytes) ==
    LET lines == Split(Utf8Decode(bytes), NL)
    IN  [i \in 1..(Len(lines) - 1) |-> Trim(lines[i])]

\* C2: whatever the fragment boundaries, the lines classified so far are the
\* lines classified when the bytes received so far arrive as one fragment.
C2_FragmentsAsOneBlock == processed = OneBlockLines(rxBytes)

\* C3: the text after the last newline is in the carry-over buffer and has
\* been classified by nothing; every newline-terminated line received has
\* been classified exactly once, in order.
C3_EveryLineOnce ==
    /\ outputBuffer = Unterminated(rxText)
    /\ Len(processed) = NewlineCount(rxText)
    /\ \A k \in 1..Len(processed) : processed[k] = Trim(LineAt(rxText, k))

\* C4: a well-formed text or speech-setting command that arrives while
\* NotReady is appended to the pending queue and acknowledged as queued.
C4_EveryCommandQueued ==
    (/\ lastOp.op \in {"text-message", "tts-setting"}
     /\ ~lastOp.ready
     /\ lastOp.status # 400)
    => /\ lastOp.body = "Message queued"
       /\ Len(lastOp.pendAfter) = Len(lastOp.pendBefore) + 1

\* C5: a well-formed command that arrives while Ready makes one write that
\* is exactly one newline-terminated line, is acknowledged as sent, and
\* leaves the pending queue alone.
C5_OneLinePerCommand ==
    (/\ lastOp.op \in {"text-message", "tts-setting"}
     /\ lastOp.ready
     /\ lastOp.status # 400)
    => /\ Len(lastOp.wrote) = 1
       /\ NewlineCount(lastOp.wrote[1]) = 1
       /\ lastOp.wrote[1][Len(lastOp.wrote[1])] = NL
       /\ lastOp.status = 200
       /\ lastOp.pendAfter = lastOp.pendBefore

\* C6: once the readiness flag is true every step keeps it true, and a
\* readiness probe answered from then on reports true.
C6_ReadyIsTerminal ==
    [][pythonReady =>
         /\ pythonReady'
         /\ (lastOp' # lastOp /\ lastOp'.op = "health")
              => lastOp'.body = "{\"ready\":true}"]_vars

C6_Witness ==
    /\ pythonReady
    /\ Len(processed) = 2
    /\ processed[1] = READY
    /\ lastOp.op = "health"
    /\ lastOp.ready
    /\ lastOp.body = "{\"ready\":true}"
    /\ wsConn[1].readyState = 3

\* C7: an interrupt message of a stream client makes exactly one write, the
\* INTERRUPT line, in either readiness state, and leaves the pending queue
\* alone; no INTERRUPT line ever comes out of the pending queue.
C7_InterruptWrittenAtOnce ==
    /\ (lastOp.op = "ws-message" /\ lastOp.wsMsg = "interrupt")
       => /\ lastOp.wrote = << INTERRUPT \o <<NL>> >>
          /\ lastOp.pendAfter = lastOp.pendBefore
    /\ \A i \in 1..Len(pendingMessages) : pendingMessages[i].message # INTERRUPT
    /\ \A i \in 1..Len(FlushedTexts) : FlushedTexts[i] # INTERRUPT \o <<NL>>

C7_Witness ==
    /\ lastOp.op = "ws-message"
    /\ lastOp.wsMsg = "interrupt"
    /\ ~lastOp.ready
    /\ lastOp.pendBefore # <<>>
    /\ stdinWrites = << [text |-> INTERRUPT \o <<NL>>, origin |-> "interrupt"] >>

\* C8: a STREAM_CHUNK line with a decimal index i of at most 32 bits and the
\* base64 text of payload p broadcasts one binary frame, the four
\* little-endian bytes of i followed by p; every open stream client receives
\* it, no push client receives anything, and nothing enters the plain-text
\* queue.
C8_ChunkFrame ==
    /\ \A k \in 1..Len(batch) : \A id \in ResponseIds, c \in ChunkCases :
         batch[k].line = ChunkLine(id, c.index, c.b64)
         => /\ batch[k].ws = << [bin |-> c.le \o c.bytes] >>
            /\ batch[k].wsGot = batch[k].wsOpen
            /\ batch[k].sse = <<>>
            /\ batch[k].sseGot = {}
            /\ batch[k].mq = <<>>
    /\ \A w \in WsIds : IsSuffix(WsDue(batch, w), wsConn[w].got)
    /\ \A c \in SseIds : \A i \in 1..Len(sseConn[c].got) :
         sseConn[c].got[i] = ConnectedEvent
    /\ \A i \in 1..Len(messageQueue) : ~StartsWith(messageQueue[i], STREAM_CHUNK)

C8_Witness ==
    \E k \in 1..Len(batch) :
        /\ batch[k].ws = << [bin |-> <<2, 1, 0, 0, 255>>] >>
        /\ batch[k].wsGot # {}
        /\ sseConn[1].state = "open"

\* C9: a line with an unparsable or out-of-range numeric field is never
\* fatal: the server stays up and every line received is still processed.
C9_BadLineNeverFatal ==
    /\ alive
    /\ \A k \in 1..Len(batch) : ~batch[k].threw
    /\ Len(processed) = NewlineCount(rxText)

\* C10: every push client that is registered and open when an event is
\* broadcast receives it, also when another registered client's connection
\* is already closed.
C10_ClosedClientSkipped ==
    /\ \A k \in 1..Len(batch) :
         batch[k].kind = "audio" => batch[k].sseGot = batch[k].sseOpen
    /\ \A c \in SseIds : IsSuffix(SseDue(batch, c), sseConn[c].got)

C10_Witness ==
    \E k \in 1..Len(batch) :
        /\ batch[k].kind = "audio"
        /\ \E i, j \in 1..Len(batch[k].sseReg) :
             /\ i < j
             /\ batch[k].sseReg[i] \notin batch[k].sseOpen
             /\ batch[k].sseReg[j] \in batch[k].sseGot

\* the frames (ch = "ws") or events (ch = "sse") the cases of OrderCases give
\* for the lines classified so far, line after line
RECURSIVE DueOf(_, _)
DueOf(lines, ch) ==
    IF lines = <<>> THEN <<>>
    ELSE LET c == CHOOSE x \in OrderCases : x.line = Head(lines)
         IN  (IF ch = "ws" THEN c.ws ELSE c.sse) \o DueOf(Tail(lines), ch)

\* seq continues with part at position from + 1
SegmentAt(seq, from, part) ==
    /\ from + Len(part) <= Len(seq)
    /\ SubSeq(seq, from + 1, from + Len(part)) = part

\* C11: what was handed to each registry is what the classified lines
\* produce, in their order; each client has received a run of it without gap,
\* repetition or exchange that begins where the client joined, and a client
\* that is registered and open has received all of it up to the end.
C11_FramesInLineOrder ==
    /\ hubLog.ws = DueOf(processed, "ws")
    /\ hubLog.sse = DueOf(processed, "sse")
    /\ \A w \in WsIds :
         /\ SegmentAt(hubLog.ws, wsConn[w].since, wsConn[w].got)
         /\ (InSeq(wsClients, w) /\ wsConn[w].readyState = 1)
              => wsConn[w].since + Len(wsConn[w].got) = Len(hubLog.ws)
    /\ \A c \in SseIds : sseConn[c].state # "new" =>
         /\ Head(sseConn[c].got) = ConnectedEvent
         /\ SegmentAt(hubLog.sse, sseConn[c].since, Tail(sseConn[c].got))
         /\ sseConn[c].state = "open"
              => sseConn[c].since + Len(sseConn[c].got) - 1 = Len(hubLog.sse)

C11_Witness ==
    /\ Len(wsConn[1].got) = 2
    /\ wsConn[1].got[1] # wsConn[1].got[2]
    /\ wsConn[1].readyState = 1
    /\ wsConn[1].since = 0

\* C12: no two registered push clients have the same identifier, and every
\* push client whose close event has not been delivered is registered: the
\* removal of one client removes no other.
C12_UniquePushIds ==
    /\ \A i, j \in 1..Len(sseClients) :
         i # j => sseClients[i].id # sseClients[j].id
    /\ \A c \in SseIds : sseConn[c].state \in {"open", "closed"} =>
         \E i \in 1..Len(sseClients) : sseClients[i].res = c

\* C13: a pull that finds the plain-text queue empty returns the empty
\* string; a pull that finds lines returns them newline-joined and leaves the
\* queue empty; a pull that follows a pull with no line classified in
\* between returns the empty string.
C13_PullDrains ==
    [][(cmds' = cmds + 1 /\ lastOp'.op = "text-output") =>
         /\ messageQueue = <<>> => lastOp'.text = <<>>
         /\ messageQueue # <<>> => Split(lastOp'.text, NL) = messageQueue
         /\ messageQueue' = <<>>
         /\ pulled' = Append(pulled, lastOp'.text)
         /\ (lastOp.op = "text-output" /\ lastOp.lines = Len(processed))
              => lastOp'.text = <<>>]_vars

C13_Witness ==
    /\ Len(pulled) = 2
    /\ pulled[1] = <<"h", "i", NL, "o", "k">>
    /\ pulled[2] = <<>>
    /\ lastOp.op = "text-output"
    /\ lastOp.lines = 2

\* a trimmed line that is not empty and matches no protocol pattern
IsPlainLine(t) ==
    /\ t # <<>>
    /\ t \notin {READY, KOKORO_READY, INTERRUPT_ACK}
    /\ \A p \in {STREAM_START, STREAM_CHUNK, STREAM_END, AUDIO} : ~StartsWith(t, p)

\* the newline-terminated lines received from the worker, trimmed
ReceivedLines == [k \in 1..NewlineCount(rxText) |-> Trim(LineAt(rxText, k))]

\* the lines of the pull results, pull after pull
RECURSIVE PulledLines(_)
PulledLines(results) ==
    IF results = <<>> THEN <<>>
    ELSE (IF Head(results) = <<>> THEN <<>> ELSE Split(Head(results), NL))
         \o PulledLines(Tail(results))

\* C14: the lines returned by the pulls so far, followed by the lines still
\* queued, are the plain lines among the lines received from the worker, in
\* arrival order; no protocol line is among them.
C14_PullsArePlainLines ==
    PulledLines(pulled) \o messageQueue = SelectSeq(ReceivedLines, IsPlainLine)

\* the player has a session that is neither ended, interrupted nor disposed
Active == player.audioContext # 0 /\ player.isPlaying

\* this step hands a chunk to queueChunk
ChunkStep == Len(env'.arrived) = Len(env.arrived) + 1

\* the chunk handed over by this step
NewChunk == env'.arrived[Len(env'.arrived)]

\* milliseconds of sound in one chunk of ChunkSamples samples
ChunkMs == IF player.sampleRate = 24000 THEN 250 ELSE 500

\* time on the clock of the player's audio context
AudioNow == env.clock - env.contexts[player.audioContext].born

\* this step starts exactly the units for chunks, back-to-back from time t0
\* of the audio clock, in this order, in the player's context
StartsUnits(chunks, t0) ==
    /\ Len(env'.sources) = Len(env.sources) + Len(chunks)
    /\ SubSeq(env'.sources, 1, Len(env.sources)) = env.sources
    /\ \A i \in 1..Len(chunks) :
         env'.sources[Len(env.sources) + i] =
             [ctx |-> player.audioContext, chunk |-> chunks[i],
              start |-> t0 + (i - 1) * ChunkMs, dur |-> ChunkMs,
              stopped |-> FALSE]
    /\ player'.scheduledSources =
         player.scheduledSources
         \o [i \in 1..Len(chunks) |-> Len(env.sources) + i]

\* C15: while a session has not started playback it holds fewer than 3
\* chunks and has no unit; a chunk that arrives as first or second is only
\* buffered; the third makes all three units, back-to-back from 20 ms ahead
\* in arrival order, empties the buffer and starts playback; once started,
\* every chunk becomes a unit at once and the buffer stays empty.
C15_WarmUpThenDirect ==
    [][/\ (Active /\ ~player.playbackStarted)
            => /\ Len(player.chunkBuffer) < MinBufferChunks
               /\ player.scheduledSources = <<>>
       /\ (ChunkStep /\ Active /\ ~player.playbackStarted
              /\ Len(player.chunkBuffer) < 2)
            => /\ player'.chunkBuffer = Append(player.chunkBuffer, NewChunk)
               /\ ~player'.playbackStarted
               /\ env'.sources = env.sources
               /\ player'.scheduledSources = <<>>
       /\ (ChunkStep /\ Active /\ ~player.playbackStarted
              /\ Len(player.chunkBuffer) = 2)
            => /\ StartsUnits(Append(player.chunkBuffer, NewChunk),
                              AudioNow + 20)
               /\ player'.chunkBuffer = <<>>
               /\ player'.playbackStarted
       /\ (ChunkStep /\ Active /\ player.playbackStarted)
            => /\ StartsUnits(<<NewChunk>>, Max(player.nextPlayTime, AudioNow))
               /\ player.chunkBuffer = <<>>
               /\ player'.chunkBuffer = <<>>
               /\ player'.playbackStarted]_vars

C15_Witness ==
    /\ env.trace = <<"start", "chunk", "chunk", "chunk", "chunk">>
    /\ Len(env.sources) = 4
    /\ env.sources[3].start = env.sources[1].start + 500
    /\ env.sources[4].start = 1000
    /\ player.chunkBuffer = <<>>
    /\ player.playbackStarted

\* this step is a call of endStream
EndStep == env'.trace = Append(env.trace, "end")

\* this step is the firing of timer id
FireStep(id) ==
    /\ id \in 1..Len(env.timers)
    /\ env.timers[id].state = "armed"
    /\ env'.timers[id].state = "fired"

\* C16: endStream on a live session that holds 1 or 2 buffered chunks and has
\* not started playback makes their units at once, back-to-back from 20 ms
\* ahead in arrival order, empties the buffer, throws nothing and arms a timer
\* for the end of the last unit plus 50 ms; a timer that fires invokes the
\* registered completion callback.
C16_ShortStreamFlushed ==
    [][/\ (EndStep /\ Active /\ ~player.playbackStarted
              /\ Len(player.chunkBuffer) \in {1, 2})
            => /\ StartsUnits(player.chunkBuffer, AudioNow + 20)
               /\ player'.chunkBuffer = <<>>
               /\ player'.playbackStarted
               /\ env'.errors = env.errors
               /\ player'.endTimeout = Len(env.timers) + 1
               /\ Len(env'.timers) = Len(env.timers) + 1
               /\ env'.timers[Len(env.timers) + 1] =
                     [due |-> env.clock + 20
                                + Len(player.chunkBuffer) * ChunkMs + 50,
                      state |-> "armed", session |-> env.session]
       /\ \A id \in 1..Len(env.timers) :
            (FireStep(id) /\ player.onPlaybackEnd)
            => /\ env.clock >= env.timers[id].due
               /\ env'.ended = Append(env.ended,
                     [session |-> env.session, at |-> env.clock,
                      via |-> "timer"])]_vars

C16_Witness ==
    /\ env.trace = <<"start", "chunk", "chunk", "end", "fire">>
    /\ Len(env.sources) = 2
    /\ env.sources[2].start = env.sources[1].start + env.sources[1].dur
    /\ Len(env.ended) = 1
    /\ env.ended[1].via = "timer"

\* the calls made on the player since the last startStream
SessionCalls ==
    LET isCall(x) == x # "fire" IN SelectSeq(env.trace, isCall)

\* the session got startStream, then n >= 3 chunks, then endStream, and no
\* other call
ThreeOrMoreThenEnd ==
    LET c == SessionCalls
    IN  /\ Len(c) >= 5
        /\ c[1] = "start"
        /\ c[Len(c)] = "end"
        /\ \A i \in 2..(Len(c) - 1) : c[i] = "chunk"

\* the chunks handed to queueChunk since the last startStream
SessionChunks ==
    LET isChunk(x) == x = "chunk"
        n == Len(SelectSeq(env.trace, isChunk))
    IN  SubSeq(env.arrived, Len(env.arrived) - n + 1, Len(env.arrived))

\* the invocations of the completion callback in the current session
SessionEnded ==
    LET mine(x) == x.session = env.session IN SelectSeq(env.ended, mine)

\* wall-clock time at which unit i is scheduled to end
UnitEnd(i) ==
    env.contexts[env.sources[i].ctx].born + env.sources[i].start
    + env.sources[i].dur

\* C17: in a session that got at least 3 chunks and then endStream, and no
\* other call, every chunk has its unit; the completion callback is invoked
\* at most once, and once when the session's timer has fired; it is not
\* invoked before the last unit's scheduled end; when it has been invoked
\* the context is closed and the player holds no context and no unit.
C17_LongStreamEndsOnce ==
    (ThreeOrMoreThenEnd /\ player.onPlaybackEnd) =>
        /\ \A k \in 1..Len(SessionChunks) :
             \E i \in 1..Len(env.sources) :
                 env.sources[i].chunk = SessionChunks[k]
        /\ Len(SessionEnded) <= 1
        /\ (\E id \in 1..Len(env.timers) :
                /\ env.timers[id].session = env.session
                /\ env.timers[id].state = "fired")
             => Len(SessionEnded) = 1
        /\ \A j \in 1..Len(SessionEnded) : \A i \in 1..Len(env.sources) :
             SessionEnded[j].at >= UnitEnd(i)
        /\ SessionEnded # <<>>
             => /\ player.audioContext = 0
                /\ player.scheduledSources = <<>>
                /\ \A c \in 1..Len(env.contexts) :
                     env.contexts[c].state = "closed"

\* this step is a call of interrupt
InterruptStep == env'.trace = Append(env.trace, "interrupt")

\* some timer can still run its callback
ArmedTimers(e) == {id \in 1..Len(e.timers) : e.timers[id].state = "armed"}

\* C18: interrupt on a live session stops every unit of the session, leaves
\* no end timer armed, closes the context and leaves the player without
\* context and units, and invokes the registered completion callback once;
\* an interrupt right after an interrupt changes nothing and invokes nothing.
C18_InterruptEndsSession ==
    [][/\ (InterruptStep /\ Active)
            => /\ \A i \in 1..Len(env.sources) :
                    env.sources[i].ctx = player.audioContext
                    => env'.sources[i].stopped
               /\ ArmedTimers(env') = {}
               /\ env'.contexts[player.audioContext].state = "closed"
               /\ player'.audioContext = 0
               /\ player'.scheduledSources = <<>>
               /\ ~player'.isPlaying
               /\ env'.ended =
                     IF player.onPlaybackEnd
                     THEN Append(env.ended, [session |-> env.session,
                                             at |-> env.clock,
                                             via |-> "interrupt"])
                     ELSE env.ended
       /\ (InterruptStep /\ env.trace # <<>>
              /\ env.trace[Len(env.trace)] = "interrupt")
            => /\ player' = player
               /\ env'.ended = env.ended
               /\ env'.sources = env.sources
               /\ env'.timers = env.timers
               /\ env'.contexts = env.contexts]_vars

\* C19: a chunk produced for a session that was interrupted, handed to the
\* player at any later time, is neither buffered nor made a unit, also when
\* a later startStream has opened a new session.
C19_StaleChunkDiscarded ==
    [][(ChunkStep /\ NewChunk.owner \in env.interrupted)
            => /\ env'.sources = env.sources
               /\ player'.chunkBuffer = player.chunkBuffer
               /\ player'.scheduledSources = player.scheduledSources]_vars

\* this step is a call of dispose
DisposeStep == env'.trace = Append(env.trace, "dispose")

\* C20: dispose, called in any state, throws nothing and does not invoke the
\* completion callback; after it the player has no context, every context is
\* closed, the player holds no unit and the units it held are stopped, and
\* no timer is armed; a dispose right after a dispose changes nothing.
C20_DisposeFromAnyState ==
    [][/\ DisposeStep
            => /\ env'.errors = env.errors
               /\ env'.ended = env.ended
               /\ player'.audioContext = 0
               /\ ~player'.isPlaying
               /\ \A c \in 1..Len(env'.contexts) :
                    env'.contexts[c].state = "closed"
               /\ player'.scheduledSources = <<>>
               /\ \A k \in 1..Len(player.scheduledSources) :
                    env'.sources[player.scheduledSources[k]].stopped
               /\ ArmedTimers(env') = {}
       /\ (DisposeStep /\ env.trace # <<>>
              /\ env.trace[Len(env.trace)] = "dispose")
            => /\ player' = player
               /\ env'.ended = env.ended
               /\ env'.sources = env.sources
               /\ env'.timers = env.timers
               /\ env'.contexts = env.contexts]_vars

\* the audio contexts that are not closed
LiveContexts == {c \in 1..Len(env.contexts) : env.contexts[c].state # "closed"}

\* C21: at most one audio context is live, and it is the player's; every
\* armed timer was armed in the current session; every unit that is not
\* stopped and whose context is not closed is a unit of the player's context.
C21_NothingSurvivesStart ==
    /\ Cardinality(LiveContexts) <= 1
    /\ \A c \in LiveContexts : c = player.audioContext
    /\ \A id \in ArmedTimers(env) : env.timers[id].session = env.session
    /\ \A i \in 1..Len(env.sources) :
         (~env.sources[i].stopped /\ env.sources[i].ctx \in LiveContexts)
         => env.sources[i].ctx = player.audioContext

\* the audio_start frame for a line with this id and rate
AudioStart(id, rate) ==
    [type |-> "audio_start", responseId |-> id, sampleRate |-> rate,
     channels |-> 1, bitDepth |-> 16]

\* C22 as stated: a STREAM_START line is answered by one audio_start frame
\* with the line's id, channels 1 and bitDepth 16, whose rate is the number
\* read from the rate field, or 24000 when no number can be read.
C22_StartEventAsStated ==
    \A k \in 1..Len(batch) : \A c \in StartCases :
        batch[k].line = c.line
        => batch[k].ws = << AudioStart(c.id, IF c.given THEN c.rate ELSE 24000) >>

\* C22: a STREAM_START line is answered by one audio_start frame with the
\* line's id, channels 1 and bitDepth 16, whose rate is the number read from
\* the rate field, or 24000 when no number can be read or the number is 0.
C22_StartEvent ==
    \A k \in 1..Len(batch) : \A c \in StartCases :
        batch[k].line = c.line
        => batch[k].ws =
             << AudioStart(c.id, IF c.given /\ c.rate # 0 THEN c.rate
                                 ELSE 24000) >>

C22_Witness ==
    /\ Len(batch) = 2
    /\ batch[1].line = StartLine(<<"r", "1">>, <<"1", "2", "0", "0", "0">>)
    /\ batch[2].line = StartLine(<<"r", "4">>, <<"0">>)
    /\ wsConn[1].got = << AudioStart(<<"r", "1">>, 12000),
                          AudioStart(<<"r", "4">>, 24000) >>

\* the control frame that answers the line of case c
ControlFrame(c) ==
    CASE c.kind = "kokoro_ready" -> [type |-> "kokoro_ready"]
      [] c.kind = "interrupt_ack" -> [type |-> "interrupt_ack"]
      [] c.kind = "stream_start" -> AudioStart(c.id, 12000)
      [] c.kind = "stream_end" -> [type |-> "audio_end", responseId |-> c.id]

\* the audio event that answers the Audio line of case c
AudioEvent(c) == [event |-> "audio", data |-> <<"file", c.file>>]

\* the case of a control line
CaseOf(line) == CHOOSE c \in ControlCases : c.line = line

\* what the control lines give to the stream clients (ch = "ws") and to the
\* push clients (ch = "sse"), line after line
RECURSIVE ControlDue(_, _)
ControlDue(lines, ch) ==
    IF lines = <<>> THEN <<>>
    ELSE LET c == CaseOf(Head(lines))
         IN  (IF c.kind = "audio"
              THEN (IF ch = "sse" THEN <<AudioEvent(c)>> ELSE <<>>)
              ELSE (IF ch = "ws" THEN <<ControlFrame(c)>> ELSE <<>>))
             \o ControlDue(Tail(lines), ch)

\* C23: each KOKORO_READY, INTERRUPT_ACK, STREAM_START and STREAM_END line
\* that is classified hands exactly one frame to the stream registry, the
\* frame of its kind with the line's response id; every stream client that
\* is registered and open at that moment receives it, so that an open client
\* holds all frames since it joined; the plain-text queue stays empty.
C23_OneControlFramePerLine ==
    /\ \A k \in 1..Len(batch) :
         batch[k].kind # "audio" =>
            /\ batch[k].ws = << ControlFrame(CaseOf(batch[k].line)) >>
            /\ batch[k].mq = <<>>
            /\ batch[k].wsGot = batch[k].wsOpen
    /\ hubLog.ws = ControlDue(processed, "ws")
    /\ \A w \in WsIds :
         /\ SegmentAt(hubLog.ws, wsConn[w].since, wsConn[w].got)
         /\ (InSeq(wsClients, w) /\ wsConn[w].readyState = 1)
              => wsConn[w].since + Len(wsConn[w].got) = Len(hubLog.ws)
    /\ messageQueue = <<>>

C23_Witness ==
    /\ processed = << StartLine(<<"r", "1">>, <<"1", "2", "0", "0", "0">>),
                      STREAM_END \o <<"r", "1">> >>
    /\ wsConn[1].got = << AudioStart(<<"r", "1">>, 12000),
                          [type |-> "audio_end", responseId |-> <<"r", "1">>] >>
    /\ wsConn[1].readyState = 1

\* C24: an Audio line that is classified hands one audio event with the
\* file reference to the push registry, and every push client that is
\* registered and open receives it; it hands nothing to the stream registry,
\* no stream client receives anything for it, and the plain-text queue stays
\* as it was.
C24_AudioToPushOnly ==
    /\ \A k \in 1..Len(batch) :
         batch[k].kind = "audio" =>
            /\ batch[k].sse = << AudioEvent(CaseOf(batch[k].line)) >>
            /\ batch[k].ws = <<>>
            /\ batch[k].mq = <<>>
            /\ batch[k].wsGot = {}
            /\ batch[k].sseGot = batch[k].sseOpen
    /\ hubLog.sse = ControlDue(processed, "sse")
    /\ Len(hubLog.ws) = Len(SelectSeq(processed,
                                      LAMBDA l : CaseOf(l).kind # "audio"))
    /\ messageQueue = <<>>
    /\ \A c \in SseIds : sseConn[c].state # "new" =>
         /\ SegmentAt(hubLog.sse, sseConn[c].since, Tail(sseConn[c].got))
         /\ sseConn[c].state = "open"
              => sseConn[c].since + Len(sseConn[c].got) - 1 = Len(hubLog.sse)

C24_Witness ==
    /\ \E k \in 1..Len(batch) : batch[k].kind = "audio"
    /\ sseConn[1].state = "open"
    /\ sseConn[1].got = << ConnectedEvent,
                           [event |-> "audio",
                            data |-> <<"file", <<"f", ".", "w", "a", "v">> >>] >>
    /\ wsConn[1].readyState = 1
    /\ wsConn[1].got = <<>>

\* the writes of text commands to the worker's input, in order
TextWrites ==
    LET isText(w) == w.origin \in {"flush", "text"}
    IN  SelectSeq(stdinWrites, isText)

\* text is one whole line: its only newline is its last character
WholeLine(text) ==
    /\ text # <<>>
    /\ text[Len(text)] = NL
    /\ NewlineCount(text) = 1

\* C25: the text commands written to the worker are, in order, the commands
\* queued before READY in submission order, flushed by READY, and then the
\* commands accepted after READY; before READY none is written; every write
\* is one whole line; a command accepted after READY adds exactly its own
\* line at the end, and a command accepted before READY adds none.
C25_CommandsWholeOnceInOrder ==
    /\ [](/\ ~pythonReady => (TextWrites = <<>> /\ pendingMessages = queuedLog)
          /\ pythonReady =>
               /\ pendingMessages = <<>>
               /\ Len(TextWrites) >= Len(queuedLog)
               /\ \A i \in 1..Len(TextWrites) :
                    IF i <= Len(queuedLog)
                    THEN TextWrites[i] =
                           [text |-> TextLine(queuedLog[i].message,
                                              queuedLog[i].enableTts),
                            origin |-> "flush"]
                    ELSE TextWrites[i].origin = "text"
          /\ \A i \in 1..Len(TextWrites) : WholeLine(TextWrites[i].text))
    /\ [][(cmds' = cmds + 1 /\ lastOp'.op = "text-message"
              /\ lastOp'.status = 200)
            => IF pythonReady
               THEN stdinWrites' =
                      Append(stdinWrites,
                             [text |-> TextLine(lastOp'.message,
                                                lastOp'.enableTts),
                              origin |-> "text"])
               ELSE /\ stdinWrites' = stdinWrites
                    /\ queuedLog' = Append(queuedLog,
                          [message |-> lastOp'.message,
                           enableTts |-> lastOp'.enableTts])]_vars

\* scheduled end of unit i on the clock of its audio context
EndOf(e, i) == e.sources[i].start + e.sources[i].dur

\* C26: the units of a live session never overlap and start in arrival
\* order; a unit that is scheduled after another unit of the session starts
\* at that unit's scheduled end, or at the current audio time when that end
\* has passed.
C26_BackToBack ==
    /\ [](Active =>
            \A k \in 1..(Len(player.scheduledSources) - 1) :
                /\ player.scheduledSources[k] < player.scheduledSources[k + 1]
                /\ env.sources[player.scheduledSources[k + 1]].start
                     >= EndOf(env, player.scheduledSources[k]))
    /\ [][Active =>
            \A i \in (Len(env.sources) + 1)..Len(env'.sources) :
                (i > Len(env.sources) + 1 \/ player.scheduledSources # <<>>)
                => LET prev == IF i > Len(env.sources) + 1 THEN i - 1
                               ELSE player.scheduledSources[
                                        Len(player.scheduledSources)]
                   IN  /\ env'.sources[i].ctx = player.audioContext
                       /\ env'.sources[prev].ctx = player.audioContext
                       /\ env'.sources[i].start =
                            Max(EndOf(env', prev), AudioNow)]_vars

C26_Witness ==
    /\ Active
    /\ Len(player.scheduledSources) = 4
    /\ env.sources[player.scheduledSources[2]].start
         = EndOf(env, player.scheduledSources[1])
    /\ env.sources[player.scheduledSources[4]].start
         > EndOf(env, player.scheduledSources[3])
    /\ env.sources[player.scheduledSources[4]].start = AudioNow

\* the session was interrupted or disposed while it was buffering: it got
\* startStream, then at most 2 chunks, then interrupt or dispose
CutWhileBuffering ==
    \E k \in 2..Len(env.trace) :
        /\ env.trace[1] = "start"
        /\ k - 2 < MinBufferChunks
        /\ \A j \in 2..(k - 1) : env.trace[j] = "chunk"
        /\ env.trace[k] \in {"interrupt", "dispose"}

\* C27: endStream on a session that was interrupted or disposed while it was
\* buffering throws nothing, makes no unit, arms no timer and does not invoke
\* the completion callback.
C27_EndAfterCutIsQuiet ==
    [][(EndStep /\ CutWhileBuffering)
            => /\ env'.errors = env.errors
               /\ env'.sources = env.sources
               /\ env'.timers = env.timers
               /\ env'.ended = env.ended]_vars

\* C28: between one startStream and the next the completion callback is
\* invoked at most once.
C28_CallbackAtMostOnce ==
    \A i, j \in 1..Len(env.ended) :
        env.ended[i].session = env.ended[j].session => i = j

\* endStream has been called on session s while it was live: the session got
\* startStream, then chunks and endStream calls only, and a callback is
\* registered
EndedLive(s) ==
    /\ env.session = s
    /\ player.onPlaybackEnd
    /\ \E k \in 2..Len(env.trace) :
         /\ env.trace[k] = "end"
         /\ \A j \in 1..k : env.trace[j] \in {"start", "chunk", "end"}

\* the completion callback has been invoked for session s, or the session
\* was interrupted or replaced by a later startStream
Completed(s) ==
    \/ \E i \in 1..Len(env.ended) : env.ended[i].session = s
    \/ s \in env.interrupted
    \/ env.session > s

\* C29: when endStream has been called on a live session, the completion
\* callback is eventually invoked for it, whatever chunks arrive afterwards,
\* unless the session is interrupted or replaced.
C29_EndLeadsToCallback ==
    \A s \in 1..(MaxCalls + 1) : EndedLive(s) ~> Completed(s)

\* this step is a data event of the worker's output
DataStep == rxBytes' # rxBytes

\* the frames handed to the stream registry by this step
NewFrames == SubSeq(hubLog'.ws, Len(hubLog.ws) + 1, Len(hubLog'.ws))

OnlyChunksAndEnds ==
    /\ env.trace # <<>>
    /\ env.trace[1] = "start"
    /\ \A j \in 2..Len(env.trace) : env.trace[j] \in {"chunk", "end"}

\* chunk c has a unit in the player's context
HasUnit(c) ==
    \E i \in 1..Len(env.sources) :
        env.sources[i].chunk = c /\ env.sources[i].ctx = player.audioContext

\* C31: in a session that got chunks and endStream calls only, some of whose
\* chunks failed to be scheduled, the session stays live; every chunk whose
\* scheduling does not fail is buffered while the session is buffering and
\* has its unit once playback has started; and after endStream as the last
\* call the end timer is armed.
C31_FailureSkipsOneChunk ==
    OnlyChunksAndEnds =>
        /\ Active
        /\ \A k \in 1..Len(SessionChunks) :
             SessionChunks[k].fault = "none" =>
                IF player.playbackStarted THEN HasUnit(SessionChunks[k])
                ELSE \E i \in 1..Len(player.chunkBuffer) :
                         player.chunkBuffer[i] = SessionChunks[k]
        /\ env.trace[Len(env.trace)] = "end" =>
             /\ player.endTimeout # 0
             /\ env.timers[player.endTimeout].state = "armed"

\* a stream client's message other than an interrupt is handled in this step
OtherMessageStep ==
    /\ cmds' = cmds + 1
    /\ lastOp'.op = "ws-message"
    /\ lastOp'.wsMsg # "interrupt"

\* C32: a stream-client message that does not parse, or that parses to
\* something other than an interrupt, writes nothing to the worker, leaves
\* the buffer, the readiness flag, both queues, both registries and every
\* connection as they were, and the server running.
C32_OtherMessageIsIgnored ==
    [][OtherMessageStep =>
         /\ lastOp'.wrote = <<>>
         /\ alive'
         /\ UNCHANGED << stdinWrites, outputBuffer, pythonReady,
                         pendingMessages, messageQueue, sseClients, sseConn,
                         wsClients, wsConn >>]_vars

C32_Witness ==
    /\ lastOp.op = "ws-message"
    /\ lastOp.wsMsg = "invalid"
    /\ lastOp.ready
    /\ stdinWrites # <<>>
    /\ InSeq(wsClients, 1)
    /\ wsConn[1].readyState = 1

\* C33: startStream, called with any rate in any state, leaves the player
\* with an empty chunk buffer, playback not started, no unit, no end timer
\* of its own and none armed anywhere, the given rate recorded (24000 when
\* none is given), and a live session on a new running context of that rate.
C33_StartResetsEverything ==
    [][\A r \in SampleRates :
         PlayerStart(r) =>
            /\ player'.chunkBuffer = <<>>
            /\ ~player'.playbackStarted
            /\ player'.scheduledSources = <<>>
            /\ \A i \in 1..Len(env'.sources) :
                 env'.sources[i].ctx # player'.audioContext
            /\ player'.nextPlayTime = 0
            /\ player'.lastChunkDuration = 0
            /\ player'.endTimeout = 0
            /\ ArmedTimers(env') = {}
            /\ player'.sampleRate = (IF r = 0 THEN 24000 ELSE r)
            /\ player'.isPlaying
            /\ player'.audioContext = Len(env.contexts) + 1
            /\ env'.contexts[player'.audioContext].state = "running"
            /\ env'.contexts[player'.audioContext].sampleRate
                 = player'.sampleRate]_vars

\* the lines classified by this step, trimmed
NewLines == SubSeq(processed', Len(processed) + 1, Len(processed'))

\* C34: a worker line that is empty after trimming hands no frame and no
\* event to a registry, reaches no client, appends nothing to the plain-text
\* queue and writes nothing to the worker; a data event all of whose lines
\* are empty after trimming leaves the readiness flag, both queues, the
\* worker's input, both registries and every connection as they were, and
\* the server running.
C34_BlankLineIsNoOp ==
    /\ [](\A k \in 1..Len(batch) :
            batch[k].line = <<>>
            => /\ batch[k].ws = <<>> /\ batch[k].sse = <<>>
               /\ batch[k].wsGot = {} /\ batch[k].sseGot = {}
               /\ batch[k].mq = <<>> /\ batch[k].writes = <<>>
               /\ ~batch[k].threw)
    /\ [][(DataStep /\ \A k \in 1..Len(NewLines) : NewLines[k] = <<>>)
            => /\ alive'
               /\ Len(processed') = NewlineCount(rxText')
               /\ UNCHANGED << pythonReady, pendingMessages, messageQueue,
                               stdinWrites, hubLog, sseClients, sseConn,
                               wsClients, wsConn >>]_vars

C34_Witness ==
    /\ rxText = <<" ", NL, "\t", "\r", NL>>
    /\ processed = << <<>>, <<>> >>
    /\ ~pythonReady
    /\ pendingMessages # <<>>
    /\ batch[Len(batch)].wsOpen = {1}
    /\ batch[Len(batch)].sseOpen = {1}

\* C35: whenever the readiness flag is true the pending queue is empty; a
\* data event that arrives when the flag is true writes nothing to the
\* worker and keeps the flag; and a READY line that follows a READY line of
\* the same data event writes nothing.
C35_ReadyMeansNothingPending ==
    /\ [](/\ pythonReady => pendingMessages = <<>>
          /\ \A j, k \in 1..Len(batch) :
               (j < k /\ batch[j].line = READY /\ batch[k].line = READY)
               => batch[k].writes = <<>>)
    /\ [][(DataStep /\ pythonReady)
            => /\ stdinWrites' = stdinWrites
               /\ pendingMessages' = <<>>
               /\ pythonReady']_vars

C35_Witness ==
    /\ processed = << READY, READY >>
    /\ Len(batch) = 1
    /\ pythonReady
    /\ Len(stdinWrites) = 1
    /\ stdinWrites[1].origin = "flush"

\* this step flushes the pending queue: a data event sets the readiness flag
FlushStep == DataStep /\ ~pythonReady /\ pythonReady'

\* C36: a text command accepted while NotReady is queued with its message
\* and speech flag as submitted; the flush writes one line per queued
\* command, in order, and each is the line a submission in the Ready state
\* writes: the TEXT_TTS prefix when speech is enabled and the TEXT prefix
\* otherwise, then the message unchanged, then a newline.
C36_FlushedAsSubmitted ==
    [][/\ (cmds' = cmds + 1 /\ lastOp'.op = "text-message"
              /\ lastOp'.status = 200 /\ ~pythonReady)
            => pendingMessages' =
                 Append(pendingMessages,
                        [message |-> lastOp'.message,
                         enableTts |-> lastOp'.enableTts])
       /\ FlushStep
            => /\ Len(stdinWrites') = Len(stdinWrites) + Len(pendingMessages)
               /\ \A i \in 1..Len(pendingMessages) :
                    LET m == pendingMessages[i]
                        w == stdinWrites'[Len(stdinWrites) + i]
                    IN  /\ w.text = TextLine(m.message, m.enableTts)
                        /\ w.text =
                             (IF m.enableTts = "true" THEN TEXT_TTS ELSE TEXT)
                             \o m.message \o <<NL>>]_vars

C36_Witness ==
    /\ pythonReady
    /\ Len(queuedLog) = 2
    /\ queuedLog[1].enableTts = "true"
    /\ queuedLog[1].message = <<"a", NL, "b">>
    /\ queuedLog[2].enableTts = "false"
    /\ Len(stdinWrites) = 2
    /\ stdinWrites[1].text = TEXT_TTS \o <<"a", NL, "b", NL>>
    /\ stdinWrites[2].text = TEXT \o <<"h", "i", NL>>

\* this step answers a request that is to be rejected: a text message whose
\* message is missing or empty, or a speech setting that is not a boolean
RejectedStep ==
    /\ cmds' = cmds + 1
    /\ \/ /\ lastOp'.op = "text-message"
          /\ (~lastOp'.hasMessage \/ lastOp'.message = <<>>)
       \/ /\ lastOp'.op = "tts-setting"
          /\ lastOp'.enabled \notin {"true", "false"}

\* C37: a text message without a message or with an empty one, and a speech
\* setting whose value is not a boolean, are answered with status 400
\* whatever the readiness flag is; the request writes nothing to the worker
\* and leaves the pending queue, the readiness flag, the plain-text queue,
\* the registries and the server as they were.
C37_RejectedChangesNothing ==
    [][RejectedStep =>
         /\ lastOp'.status = 400
         /\ lastOp'.body = (IF lastOp'.op = "text-message"
                            THEN "No message provided"
                            ELSE "Invalid TTS setting")
         /\ lastOp'.wrote = <<>>
         /\ alive'
         /\ UNCHANGED << stdinWrites, pendingMessages, queuedLog, pythonReady,
                         messageQueue, outputBuffer, sseClients, sseConn,
                         wsClients, wsConn >>]_vars

C37_Witness ==
    /\ lastOp.op = "text-message"
    /\ lastOp.hasMessage
    /\ lastOp.message = <<>>
    /\ lastOp.status = 400
    /\ ~lastOp.ready
    /\ Len(pendingMessages) = 1
    /\ stdinWrites = <<>>

\* the last entry of the trace of the current session, "" when it is empty
LastCall == IF env.trace = <<>> THEN "" ELSE env.trace[Len(env.trace)]

\* C38: no session is live before the first startStream, after a timer has
\* run its callback, after interrupt and after dispose, and a chunk handed
\* to queueChunk while no session is live leaves every field of the player
\* as it was, makes no unit, arms no timer, opens no context, invokes no
\* callback and throws nothing.
C38_ChunkWithoutSessionIgnored ==
    /\ []((env.session = 0 \/ LastCall \in {"fire", "interrupt", "dispose"})
            => ~Active)
    /\ [][(ChunkStep /\ ~Active)
            => /\ player' = player
               /\ env'.sources = env.sources
               /\ env'.timers = env.timers
               /\ env'.contexts = env.contexts
               /\ env'.ended = env.ended
               /\ env'.errors = env.errors]_vars

C38_Witness ==
    /\ env.trace = <<"start", "chunk", "end", "fire", "chunk">>
    /\ Len(env.ended) = 1
    /\ Len(env.arrived) = 2
    /\ Len(env.sources) = 1
    /\ player.chunkBuffer = <<>>
    /\ player.audioContext = 0

====
